---------------------------- MODULE Spec2Model ----------------------------
(***************************************************************************)
(* Model of the parallel slide generator of qezu:                          *)
(*   src/src/services/incremental-slide-parser.ts  (IncrementalSlideParser) *)
(*   src/src/services/parallel-slide-generator.ts  (createSlideTasks,       *)
(*       generateSingleSlideStream, generateSlidesInParallel/executeTask)   *)
(*                                                                         *)
(* Text is a sequence of one-character strings.  A Slide is a record       *)
(* [title, content, slideNumber]; imageUrl and colorPalette are functions   *)
(* of title and content and are left out of the record.                    *)
(***************************************************************************)
EXTENDS Integers, Sequences, FiniteSets, TLC

(***************************************************************************)
(* Characters and JavaScript string helpers                                *)
(***************************************************************************)

\* \s of the regular expressions and the characters String.trim removes
WS == {" ", "\n", "\t", "\r"}

\* line terminators, which "." of a regular expression does not match
LineTerm == {"\n", "\r"}

\* [.!?。！？] ; the three full-width marks are written by their code points
Terminals == {".", "!", "?", "u3002", "uFF01", "uFF1F"}

SetMax(S) == CHOOSE x \in S : \A y \in S : y <= x

SetMin(S) == CHOOSE x \in S : \A y \in S : x <= y

\* String.prototype.trim
Trim(s) ==
  LET idx == {k \in 1..Len(s) : s[k] \notin WS}
  IN  IF idx = {} THEN <<>> ELSE SubSeq(s, SetMin(idx), SetMax(idx))

\* String.prototype.substring(0, n)
Substring0(s, n) == IF Len(s) <= n THEN s ELSE SubSeq(s, 1, n)

\* a string is truthy when it is not empty: a || b
OrElse(a, b) == IF a # <<>> THEN a ELSE b

\* Array.prototype.join
RECURSIVE Join(_, _)
Join(parts, sep) ==
  IF parts = <<>> THEN <<>>
  ELSE IF Len(parts) = 1 THEN parts[1]
  ELSE parts[1] \o sep \o Join(Tail(parts), sep)

\* the decimal digits of a template literal ${n}
Digit(d) == <<"0", "1", "2", "3", "4", "5", "6", "7", "8", "9">>[d + 1]

RECURSIVE NumToStr(_)
NumToStr(n) ==
  IF n < 10 THEN <<Digit(n)>> ELSE NumToStr(n \div 10) \o <<Digit(n % 10)>>

\* `Slide ${idx + 1}`
SlideLabel(n) == <<"S", "l", "i", "d", "e", " ">> \o NumToStr(n)

\* length of the maximal run of characters of set C that starts at position p
RECURSIVE RunLen(_, _, _)
RunLen(s, p, C) ==
  IF p > Len(s) \/ s[p] \notin C THEN 0 ELSE 1 + RunLen(s, p + 1, C)

\* length of the match of a separator pattern at position p of s, 0 if none:
\*   "nl"       '\n'
\*   "section"  /\n---\n/
\*   "para"     /\n\n+/
\*   "ws"       /\s+/
\*   "sentence" /([.!?。！？]\s+)/
MatchLen(kind, s, p) ==
  CASE kind = "nl" -> IF s[p] = "\n" THEN 1 ELSE 0
    [] kind = "section" ->
         IF p + 4 <= Len(s) /\ SubSeq(s, p, p + 4) = <<"\n", "-", "-", "-", "\n">>
         THEN 5 ELSE 0
    [] kind = "para" ->
         IF RunLen(s, p, {"\n"}) >= 2 THEN RunLen(s, p, {"\n"}) ELSE 0
    [] kind = "ws" -> RunLen(s, p, WS)
    [] kind = "sentence" ->
         IF s[p] \in Terminals /\ RunLen(s, p + 1, WS) >= 1
         THEN 1 + RunLen(s, p + 1, WS) ELSE 0

\* the place of the first match at or after p, Len(s) + 1 when there is none
NextMatch(kind, s, p) ==
  SetMin({q \in p..(Len(s) + 1) : q = Len(s) + 1 \/ MatchLen(kind, s, q) > 0})

RECURSIVE SplitFrom(_, _, _, _)
\* the piece before the match of m characters at q, the match itself when
\* the pattern captures it, and the pieces of the rest
SplitCut(kind, s, start, q, m) ==
  <<SubSeq(s, start, q - 1)>>
  \o (IF kind = "sentence" THEN <<SubSeq(s, q, q + m - 1)>> ELSE <<>>)
  \o SplitFrom(kind, s, q + m, q + m)

\* the pieces of s from start when the next match is at q
SplitAt(kind, s, start, q) ==
  IF q > Len(s) THEN <<SubSeq(s, start, Len(s))>>
  ELSE SplitCut(kind, s, start, q, MatchLen(kind, s, q))

\* String.prototype.split: the pieces between the matches, and for a pattern
\* with a capture group ("sentence") the captured separators between them
SplitFrom(kind, s, p, start) == SplitAt(kind, s, start, NextMatch(kind, s, p))

Split(kind, s) == SplitFrom(kind, s, 1, 1)

\* .filter(s => s.trim())
NonBlank(s) == Trim(s) # <<>>

(***************************************************************************)
(* IncrementalSlideParser                                                  *)
(***************************************************************************)

\* splitIntoSentences drops sentences of at most this many characters
MinSentenceLength == 5

\* parseSentenceFormat cuts a title taken from running text
TitleFromTextMax == 50

\* parseSentenceFormat cuts every title
TitleMax == 100

\* /[.!?。！？]\s*$/
EndsWithTerminal(s) ==
  LET idx == {k \in 1..Len(s) : s[k] \notin WS}
  IN  idx # {} /\ s[SetMax(idx)] \in Terminals

LongEnough(s) == Len(s) > MinSentenceLength

\* the loop of splitIntoSentences over the pieces, current being the
\* sentence under construction
RECURSIVE CollectSentences(_, _)
CollectSentences(pieces, current) ==
  IF pieces = <<>>
  THEN IF Trim(current) # <<>> THEN <<Trim(current)>> ELSE <<>>
  ELSE LET cur == current \o Head(pieces)
       IN  IF EndsWithTerminal(Head(pieces))
           THEN <<Trim(cur)>> \o CollectSentences(Tail(pieces), <<>>)
           ELSE CollectSentences(Tail(pieces), cur)

splitIntoSentences(text) ==
  SelectSeq(CollectSentences(SelectSeq(Split("sentence", text), NonBlank), <<>>),
            LongEnough)

\* this.splitIntoSentences(content)[0] || fallback
FirstSentence(content, fallback) ==
  LET ss == splitIntoSentences(content)
  IN  IF ss # <<>> THEN ss[1] ELSE fallback

\* the pairs <<h, m>> such that s starts with h '#' (h <= maxHashes) followed
\* by m whitespace characters
HashPrefixes(s, maxHashes) ==
  {hm \in (1..RunLen(s, 1, {"#"})) \X (1..Len(s)) :
      /\ hm[1] <= maxHashes
      /\ hm[1] + hm[2] <= Len(s)
      /\ \A k \in 1..hm[1] : s[k] = "#"
      /\ \A k \in (hm[1] + 1)..(hm[1] + hm[2]) : s[k] \in WS}

\* the prefixes after which (.+)$ matches: something is left, without a line
\* terminator
HeadingPrefixes(s, maxHashes) ==
  {hm \in HashPrefixes(s, maxHashes) :
      /\ hm[1] + hm[2] < Len(s)
      /\ \A k \in (hm[1] + hm[2] + 1)..Len(s) : s[k] \notin LineTerm}

\* the greedy choice of the regular expression engine: most '#', then most
\* whitespace
Greedy(P) ==
  LET h == SetMax({hm[1] : hm \in P})
  IN  <<h, SetMax({hm[2] : hm \in {x \in P : x[1] = h}})>>

\* line.match(/^#{1,2}\s+(.+)$/)
IsHeadingLine(line) == HeadingPrefixes(line, 2) # {}

\* firstLine.match(/^#+\s+(.+)$/)
IsAnyHeading(line) == HeadingPrefixes(line, Len(line)) # {}

\* titleMatch[1] of /^#+\s+(.+)$/
AnyHeadingCapture(line) ==
  LET g == Greedy(HeadingPrefixes(line, Len(line)))
  IN  SubSeq(line, g[1] + g[2] + 1, Len(line))

\* s.replace(/^#{1,2}\s+/, '') for maxHashes = 2, s.replace(/^#+\s+/, '')
\* for maxHashes = Len(s)
StripHashes(s, maxHashes) ==
  LET P == HashPrefixes(s, maxHashes)
  IN  IF P = {} THEN s
      ELSE LET g == Greedy(P) IN SubSeq(s, g[1] + g[2] + 1, Len(s))

\* line.match(/^---$/)
IsSeparatorLine(line) == line = <<"-", "-", "-">>

Slide(title, content, n) == [title |-> title, content |-> content, slideNumber |-> n]

NoCurrent == [open |-> FALSE, title |-> <<>>, content |-> <<>>]

\* a closing block without the test of this.seenSlideTitles
CloseCandidateAgain(acc, cur) ==
  IF cur.open /\ cur.title # <<>>
  THEN [slides |-> Append(acc.slides,
                          Slide(Trim(cur.title),
                                FirstSentence(Trim(cur.content), Trim(cur.content)),
                                Len(acc.slides) + 1)),
        seen   |-> acc.seen \cup {Trim(cur.title)}]
  ELSE acc

\* the block that closes the candidate cur in parseMarkdownFormat: a slide
\* is pushed when the title is new, and the title is remembered
CloseCandidate(acc, cur) ==
  IF cur.open /\ cur.title # <<>> /\ Trim(cur.title) \notin acc.seen
  THEN LET title   == Trim(cur.title)
           content == Trim(cur.content)
       IN  [slides |-> Append(acc.slides,
                              Slide(title, FirstSentence(content, content),
                                    Len(acc.slides) + 1)),
            seen   |-> acc.seen \cup {title}]
  ELSE acc

\* the loop of parseMarkdownFormat over the lines
RECURSIVE MarkdownLines(_, _, _)
MarkdownLines(lines, acc, cur) ==
  IF lines = <<>> THEN CloseCandidate(acc, cur)
  ELSE LET line == Head(lines)
       IN  IF IsHeadingLine(line)
           THEN MarkdownLines(Tail(lines), CloseCandidate(acc, cur),
                              [open |-> TRUE,
                               title |-> Trim(StripHashes(line, 2)),
                               content |-> <<>>])
           ELSE IF IsSeparatorLine(line)
           THEN IF cur.open /\ cur.title # <<>>
                THEN MarkdownLines(Tail(lines), CloseCandidate(acc, cur), NoCurrent)
                ELSE MarkdownLines(Tail(lines), acc, cur)
           ELSE IF cur.open
           THEN MarkdownLines(Tail(lines), acc,
                              [cur EXCEPT !.content =
                                 cur.content
                                 \o (IF cur.content # <<>> THEN <<"\n">> ELSE <<>>)
                                 \o line])
           ELSE MarkdownLines(Tail(lines), acc, cur)

\* parseMarkdownFormat: the slides it returns and this.seenSlideTitles after
parseMarkdownFormat(buffer, seen) ==
  MarkdownLines(Split("nl", buffer), [slides |-> <<>>, seen |-> seen], NoCurrent)

\* one section of the "---" branch of parseSentenceFormat
SectionSlide(section, n) ==
  LET sectionLines == Split("nl", Trim(section))
      firstLine    == sectionLines[1]
      title   == IF IsAnyHeading(firstLine) THEN AnyHeadingCapture(firstLine)
                 ELSE OrElse(Substring0(firstLine, TitleFromTextMax), SlideLabel(n))
      content == IF IsAnyHeading(firstLine)
                 THEN Join(Tail(sectionLines), <<"\n">>)
                 ELSE section
  IN  Slide(Substring0(title, TitleMax), FirstSentence(content, Trim(content)), n)

\* one paragraph of the paragraph branch of parseSentenceFormat
ParagraphSlide(para, n) ==
  LET lines     == Split("nl", Trim(para))
      firstLine == lines[1]
      sentences == splitIntoSentences(para)
      title   == IF IsAnyHeading(firstLine)
                 THEN StripHashes(AnyHeadingCapture(firstLine), Len(firstLine))
                 ELSE IF sentences # <<>>
                      THEN OrElse(Substring0(sentences[1], TitleFromTextMax),
                                  SlideLabel(n))
                      ELSE SlideLabel(n)
      content == IF IsAnyHeading(firstLine)
                 THEN Join(Tail(lines), <<"\n">>)
                 ELSE IF sentences # <<>>
                      THEN OrElse(Join(Tail(sentences), <<" ">>), sentences[1])
                      ELSE para
  IN  Slide(Substring0(title, TitleMax), FirstSentence(content, Trim(content)), n)

\* the title of the last branch of parseSentenceFormat is made of this many
\* words
TitleWords == 5

\* one sentence of the last branch of parseSentenceFormat
SentenceSlide(sentence, n) ==
  LET words == Split("ws", sentence)
      title == OrElse(Join(Substring0(words, TitleWords), <<" ">>), SlideLabel(n))
  IN  Slide(Substring0(title, TitleMax), sentence, n)

\* parseSentenceFormat
parseSentenceFormat(buffer) ==
  LET sections   == SelectSeq(Split("section", buffer), NonBlank)
      paragraphs == SelectSeq(Split("para", buffer), NonBlank)
      sentences  == splitIntoSentences(buffer)
  IN  IF Len(sections) > 1
      THEN [k \in 1..Len(sections) |-> SectionSlide(sections[k], k)]
      ELSE IF paragraphs # <<>>
      THEN [k \in 1..Len(paragraphs) |-> ParagraphSlide(paragraphs[k], k)]
      ELSE IF Trim(buffer) # <<>> /\ sentences # <<>>
      THEN [k \in 1..Len(sentences) |-> SentenceSlide(sentences[k], k)]
      ELSE <<>>

\* a new IncrementalSlideParser
NewParser == [buffer |-> <<>>, slides |-> <<>>, seenSlideTitles |-> {}]

\* parse: Markdown format first, sentence format when it finds nothing, and
\* the slides of the call before when neither finds anything
parse(p) ==
  LET md == parseMarkdownFormat(p.buffer, p.seenSlideTitles)
      ss == parseSentenceFormat(p.buffer)
  IN  IF md.slides # <<>>
      THEN [p EXCEPT !.slides = md.slides, !.seenSlideTitles = md.seen]
      ELSE IF ss # <<>> THEN [p EXCEPT !.slides = ss]
      ELSE p

\* a reset that keeps the titles seen so far
resetKeepsTitles(p) == [p EXCEPT !.buffer = <<>>, !.slides = <<>>]

\* reset(): buffer, slides and seenSlideTitles are emptied; currentSlide and
\* slideNumber, which no method reads, are not part of the parser here
reset(p) == [p EXCEPT !.buffer = <<>>, !.slides = <<>>, !.seenSlideTitles = {}]

\* append(chunk); the value it returns is the field slides of the result
append(p, chunk) == parse([p EXCEPT !.buffer = @ \o chunk])

(***************************************************************************)
(* Bounds of the model and program constants                               *)
(***************************************************************************)

\* largest slideCount of a batch
MaxSlides == 2

\* largest parallelCount passed to generateSlidesInParallel
MaxParallel == 2

\* parallelCount || 16
DefaultParallelCount == 16

\* the texts a backend can produce; a streaming backend delivers a text
\* character by character and may fail after any prefix of it
BackendOutputs == { <<"\n", "#", "a">> }

\* the agent lists of a batch, the empty list among them
AgentLists == { <<>>, <<"codex">>, <<"claude", "codex">> }

IsPrefix(a, b) == Len(a) <= Len(b) /\ SubSeq(b, 1, Len(a)) = a

(***************************************************************************)
(* Documents: texts made of blocks, each a heading with its text or a      *)
(* paragraph                                                               *)
(***************************************************************************)

\* most blocks of a document
MaxBlocks == 2

\* the character c, n times
Rep(c, n) == [k \in 1..n |-> c]

\* n times c and a full stop
Sentence(c, n) == Rep(c, n) \o <<".">>

\* the letter the title of block k is made of: the titles of a document
\* differ
Letter(k) == <<"a", "b", "e", "f">>[k]

\* a block opens with "# " or "## ", or is a paragraph without a heading
Markers == { <<>>, <<"#", " ">>, <<"#", "#", " ">> }

\* blocks are set apart by a blank line or by a line "---"
Seps == { <<"\n", "\n">>, <<"\n", "-", "-", "-", "\n">> }

\* lengths of a title: short, one more than the cut of a title taken from
\* running text, one more than the cut of every title
TitleLengths == {1, TitleFromTextMax + 1, TitleMax + 1}

\* the texts under a title, with their first sentence as written: no text,
\* two sentences of just more than MinSentenceLength characters, a short
\* sentence before such a one, and two short sentences
Bodies ==
  { [text |-> <<>>, first |-> <<>>],
    [text  |-> Sentence("c", MinSentenceLength) \o <<" ">> \o Sentence("d", MinSentenceLength),
     first |-> Sentence("c", MinSentenceLength)],
    [text  |-> Sentence("c", 1) \o <<" ">> \o Sentence("d", MinSentenceLength),
     first |-> Sentence("c", 1)],
    [text  |-> Sentence("c", 1) \o <<" ", "d">>,
     first |-> Sentence("c", 1)] }

Blocks == [titleLen : TitleLengths, body : Bodies]

Docs ==
  UNION {[marker : Markers, sep : Seps, blocks : [1..n -> Blocks]] : n \in 1..MaxBlocks}

\* the title of block k
BlockTitle(d, k) == Rep(Letter(k), d.blocks[k].titleLen)

\* the text of block k: heading line and body, or a paragraph whose first
\* sentence is the title with a full stop
BlockText(d, k) ==
  LET body == d.blocks[k].body.text
  IN  IF d.marker = <<>>
      THEN BlockTitle(d, k) \o <<".">>
           \o (IF body = <<>> THEN <<>> ELSE <<" ">> \o body)
      ELSE d.marker \o BlockTitle(d, k) \o <<"\n">> \o body

\* the text of the document
DocText(d) == Join([k \in 1..Len(d.blocks) |-> BlockText(d, k)], d.sep)

(***************************************************************************)
(* generateColorPalette                                                    *)
(***************************************************************************)

UpperCase == <<"A", "B", "C", "D", "E", "F", "G", "H", "I", "J", "K", "L", "M", "N", "O", "P", "Q", "R", "S", "T", "U", "V", "W", "X", "Y", "Z">>

LowerCase == <<"a", "b", "c", "d", "e", "f", "g", "h", "i", "j", "k", "l", "m", "n", "o", "p", "q", "r", "s", "t", "u", "v", "w", "x", "y", "z">>

\* String.prototype.toLowerCase on the letters A to Z
toLowerCase(s) ==
  [k \in 1..Len(s) |->
     IF \E j \in 1..Len(UpperCase) : UpperCase[j] = s[k]
     THEN LowerCase[CHOOSE j \in 1..Len(UpperCase) : UpperCase[j] = s[k]]
     ELSE s[k]]

\* String.prototype.includes
includes(s, k) ==
  \E q \in 1..(Len(s) - Len(k) + 1) : SubSeq(s, q, q + Len(k) - 1) = k

\* the keyword lists of analyzeTone
positiveKeywords ==
  { <<"s", "u", "c", "c", "e", "s", "s">>,
    <<"a", "c", "h", "i", "e", "v", "e", "m", "e", "n", "t">>,
    <<"g", "r", "o", "w", "t", "h">>,
    <<"i", "n", "n", "o", "v", "a", "t", "i", "o", "n">>,
    <<"f", "u", "t", "u", "r", "e">>,
    <<"o", "p", "p", "o", "r", "t", "u", "n", "i", "t", "y">>,
    <<"e", "x", "c", "e", "l", "l", "e", "n", "t">>,
    <<"g", "r", "e", "a", "t">>,
    <<"a", "m", "a", "z", "i", "n", "g">>,
    <<"w", "o", "n", "d", "e", "r", "f", "u", "l">>,
    <<"b", "e", "s", "t">>,
    <<"t", "o", "p">>,
    <<"w", "i", "n">>,
    <<"v", "i", "c", "t", "o", "r", "y">>,
    <<"h", "a", "p", "p", "y">>,
    <<"j", "o", "y">>,
    <<"c", "e", "l", "e", "b", "r", "a", "t", "i", "o", "n">> }

negativeKeywords ==
  { <<"p", "r", "o", "b", "l", "e", "m">>,
    <<"i", "s", "s", "u", "e">>,
    <<"c", "h", "a", "l", "l", "e", "n", "g", "e">>,
    <<"r", "i", "s", "k">>,
    <<"d", "a", "n", "g", "e", "r">>,
    <<"w", "a", "r", "n", "i", "n", "g">>,
    <<"e", "r", "r", "o", "r">>,
    <<"f", "a", "i", "l", "u", "r", "e">>,
    <<"l", "o", "s", "s">>,
    <<"c", "r", "i", "s", "i", "s">>,
    <<"d", "i", "f", "f", "i", "c", "u", "l", "t">>,
    <<"h", "a", "r", "d">> }

techKeywords ==
  { <<"t", "e", "c", "h", "n", "o", "l", "o", "g", "y">>,
    <<"d", "i", "g", "i", "t", "a", "l">>,
    <<"a", "i">>,
    <<"m", "a", "c", "h", "i", "n", "e", " ", "l", "e", "a", "r", "n", "i", "n", "g">>,
    <<"d", "a", "t", "a">>,
    <<"c", "l", "o", "u", "d">>,
    <<"s", "o", "f", "t", "w", "a", "r", "e">>,
    <<"c", "o", "d", "e">>,
    <<"p", "r", "o", "g", "r", "a", "m", "m", "i", "n", "g">>,
    <<"a", "l", "g", "o", "r", "i", "t", "h", "m">>,
    <<"s", "y", "s", "t", "e", "m">>,
    <<"p", "l", "a", "t", "f", "o", "r", "m">> }

businessKeywords ==
  { <<"b", "u", "s", "i", "n", "e", "s", "s">>,
    <<"s", "t", "r", "a", "t", "e", "g", "y">>,
    <<"m", "a", "r", "k", "e", "t">>,
    <<"r", "e", "v", "e", "n", "u", "e">>,
    <<"p", "r", "o", "f", "i", "t">>,
    <<"s", "a", "l", "e", "s">>,
    <<"c", "u", "s", "t", "o", "m", "e", "r">>,
    <<"c", "l", "i", "e", "n", "t">>,
    <<"p", "r", "o", "d", "u", "c", "t">>,
    <<"s", "e", "r", "v", "i", "c", "e">>,
    <<"c", "o", "m", "p", "a", "n", "y">>,
    <<"e", "n", "t", "e", "r", "p", "r", "i", "s", "e">> }

creativeKeywords ==
  { <<"d", "e", "s", "i", "g", "n">>,
    <<"c", "r", "e", "a", "t", "i", "v", "e">>,
    <<"a", "r", "t">>,
    <<"v", "i", "s", "u", "a", "l">>,
    <<"a", "e", "s", "t", "h", "e", "t", "i", "c">>,
    <<"b", "e", "a", "u", "t", "i", "f", "u", "l">>,
    <<"e", "l", "e", "g", "a", "n", "t">>,
    <<"s", "t", "y", "l", "e">>,
    <<"b", "r", "a", "n", "d">>,
    <<"i", "d", "e", "n", "t", "i", "t", "y">> }

\* keywords.forEach(keyword => { if (lowerText.includes(keyword)) count++ })
KeywordCount(lowerText, keywords) ==
  Cardinality({k \in keywords : includes(lowerText, k)})

\* the chain of returns of analyzeTone
ToneOfCounts(positiveCount, negativeCount, techCount, businessCount, creativeCount) ==
  IF creativeCount > 0 THEN "creative"
  ELSE IF techCount > 0 THEN "tech"
  ELSE IF businessCount > 0 THEN "business"
  ELSE IF positiveCount > negativeCount THEN "positive"
  ELSE IF negativeCount > positiveCount THEN "negative"
  ELSE "neutral"

analyzeTone(text) ==
  ToneOfCounts(KeywordCount(toLowerCase(text), positiveKeywords),
               KeywordCount(toLowerCase(text), negativeKeywords),
               KeywordCount(toLowerCase(text), techKeywords),
               KeywordCount(toLowerCase(text), businessKeywords),
               KeywordCount(toLowerCase(text), creativeKeywords))

\* the palettes, each by its primary colour
Palettes ==
  [positive |-> "#4CAF50", negative |-> "#F44336", tech |-> "#2196F3",
   business |-> "#673AB7", creative |-> "#E91E63", neutral |-> "#607D8B"]

getPaletteForTone(tone) ==
  IF tone \in DOMAIN Palettes THEN [primary |-> Palettes[tone]]
  ELSE [primary |-> Palettes.neutral]

generateColorPalette(text) == getPaletteForTone(analyzeTone(text))

\* most words in a text given to generateColorPalette
MaxWords == 3

\* words of the texts: keywords of every list, one in upper case, and a
\* word that is no keyword
PaletteWords ==
  { <<"d", "e", "s", "i", "g", "n">>,
    <<"a", "r", "t">>,
    <<"A", "I">>,
    <<"d", "a", "t", "a">>,
    <<"c", "l", "o", "u", "d">>,
    <<"m", "a", "r", "k", "e", "t">>,
    <<"g", "r", "e", "a", "t">>,
    <<"r", "i", "s", "k">>,
    <<"t", "h", "e">> }

PaletteTexts ==
  {Join(ws, <<" ">>) : ws \in UNION {[1..n -> PaletteWords] : n \in 1..MaxWords}}

(***************************************************************************)
(* The image of a slide                                                    *)
(***************************************************************************)

\* encodeURIComponent on lower-case letters and the space
encodeURIComponent(s) ==
  Join([k \in 1..Len(s) |-> IF s[k] = " " THEN <<"%", "2", "0">> ELSE <<s[k]>>], <<>>)

Presentation == <<"p", "r", "e", "s", "e", "n", "t", "a", "t", "i", "o", "n">>

\* searchUnsplashImage(keyword, 1920, 1080)
searchUnsplashImage(keyword) ==
  [base  |-> "https://source.unsplash.com/1920x1080/?",
   query |-> OrElse(encodeURIComponent(Trim(keyword)), Presentation)]

\* extractTheme for a prompt none of its patterns matches: the first 20
\* characters
extractTheme(prompt) == Trim(Substring0(prompt, 20))

\* .filter(k => k && k.length > 0)
NonBlankWord(w) == w # <<>>

\* word.length > 2
LongWord(w) == Len(w) > 2

\* englishWords of generateImageSearchKeyword and the words of
\* extractImageKeyword, for a text of lower-case words none of which is a
\* stop word
EnglishWords(text) == SelectSeq(Split("ws", text), LongWord)

\* generateImageSearchKeyword for such texts; a title or content that is
\* not given is the empty string
generateImageSearchKeyword(prompt, slideTitle, slideContent) ==
  OrElse(Join(SelectSeq(<<extractTheme(prompt)>>
                        \o Substring0(EnglishWords(prompt \o <<" ">> \o slideTitle
                                                   \o <<" ">> \o slideContent), 3),
                        NonBlankWord),
              <<" ">>),
         Presentation)

\* getImageForText(text, 1920, 1080, theme)
getImageForText(text, theme) ==
  searchUnsplashImage(OrElse(theme, generateImageSearchKeyword(text, <<>>, <<>>)))

\* a generateImageUrl that looks for the words of the slide
generateImageUrlFromText(theme, keyword, slideTitle, slideContent) ==
  getImageForText(generateImageSearchKeyword(keyword, slideTitle, slideContent), <<>>)

\* generateImageUrl of a parser with this.theme = theme
generateImageUrl(theme, keyword, slideTitle, slideContent) ==
  getImageForText(OrElse(theme, generateImageSearchKeyword(keyword, slideTitle, slideContent)),
                  theme)

\* extractImageKeyword of a parser with this.theme = theme
extractImageKeyword(theme, text) ==
  IF theme # <<>> THEN theme
  ELSE OrElse(Join(Substring0(EnglishWords(text), 3), <<" ">>), Presentation)

\* imageUrl of a slide with this title and first sentence; the slide that
\* is open at the end of the buffer, and a paragraph, call generateImageUrl
\* with the keyword alone
SlideImageUrl(theme, title, firstSentence, withText) ==
  IF withText
  THEN generateImageUrl(theme, extractImageKeyword(theme, title \o <<" ">> \o firstSentence),
                        title, firstSentence)
  ELSE generateImageUrl(theme, extractImageKeyword(theme, title \o <<" ">> \o firstSentence),
                        <<>>, <<>>)

\* themes given to setTheme, the empty string among them
Themes ==
  { <<>>, <<" ">>, <<"c", "a", "t">>, <<"f", "o", "x">>, <<"r", "e", "d", " ", "c", "a", "r">> }

\* titles and first sentences of slides
ImageTitles == { <<"b", "i", "g", " ", "d", "o", "g">>, <<"s", "u", "n">>, <<"o", "l", "d", " ", "m", "a", "p">>, <<"t", "e", "a">> }

ImageContents == { <<>>, <<"b", "l", "u", "e", " ", "s", "e", "a">>, <<"h", "o", "t">> }

(***************************************************************************)
(* executeMultiAgent                                                       *)
(***************************************************************************)

\* the agents in the order in which executeMultiAgent pushes their tasks
AgentOrder == <<"codex", "claude", "gemini">>

\* the tasks pushed for the option agents: one for each of the three
\* agents that agents.includes
AgentTasks(chosen) == SelectSeq(AgentOrder, LAMBDA a : a \in chosen)

\* what the call of the adapter of an agent does: it returns a text, which
\* can be empty, or throws
AgentOutcomes ==
  { [threw |-> FALSE, result |-> "text"], [threw |-> FALSE, result |-> ""],
    [threw |-> TRUE] }

\* the adapter call of an agent has not ended
Running == [running |-> TRUE]

\* the AgentResult the task of an agent is fulfilled with
AgentResult(agent, outcome) ==
  IF outcome.threw THEN [agent |-> agent, success |-> FALSE]
  ELSE [agent |-> agent, success |-> TRUE, result |-> outcome.result]

\* results.filter((r) => r.success && r.result)
IsSuccessful(r) == r.success /\ r.result # ""

\* one section of the aggregated text
AgentSection(r) == [heading |-> r.agent, body |-> r.result]

AllAgentsFailed == "all agents failed"

\* the value executeMultiAgent returns for results: the sections of the
\* aggregated text stand for the text joined of them
ReturnValue(results) ==
  [results    |-> results,
   aggregated |-> IF SelectSeq(results, IsSuccessful) = <<>> THEN AllAgentsFailed
                  ELSE [k \in 1..Len(SelectSeq(results, IsSuccessful)) |->
                          AgentSection(SelectSeq(results, IsSuccessful)[k])],
   summary    |-> [total   |-> Len(results),
                   success |-> Len(SelectSeq(results, IsSuccessful)),
                   failed  |-> Len(results) - Len(SelectSeq(results, IsSuccessful))]]

\* the results of the tasks that are fulfilled, in the order of the tasks
ResultsSoFar(tasks, state) ==
  [k \in 1..Len(SelectSeq(tasks, LAMBDA a : state[a] # Running)) |->
     AgentResult(SelectSeq(tasks, LAMBDA a : state[a] # Running)[k],
                 state[SelectSeq(tasks, LAMBDA a : state[a] # Running)[k]])]

\* a timeoutPromise that is resolved with the results there are
TimeoutResultsSoFar(tasks, state) == ResultsSoFar(tasks, state)

\* setTimeout(() => resolve([]), timeout)
TimeoutResults(tasks, state) == <<>>

(***************************************************************************)
(* State of one call of generateSlidesInParallel                           *)
(***************************************************************************)
VARIABLES
  slideCount,      \* argument slideCount
  agents,          \* argument agents
  parallelCount,   \* argument parallelCount, 0 when it is not given
  hasSendEvent,    \* whether the argument sendEvent is given
  pc,              \* where generateSlidesInParallel stands
  taskQueue,       \* taskQueue
  activePromises,  \* activePromises, a promise named by the slide of its task
  processingTasks, \* processingTasks
  completedTasks,  \* completedTasks
  slideMap,        \* slideMap, its entries in insertion order
  promise,         \* state of the promise of executeTask(task), per slide
  race,            \* state of the Promise.race the scheduling loop awaits
  gen,             \* state of generateSingleSlideStream(task), per slide
  parser,          \* the IncrementalSlideParser of each task
  lastSlide,       \* lastSlide of executeTask, <<>> for null
  sent,            \* the events the last step passed to sendEvent
  completeCount,   \* number of slide-complete events sent so far
  finalSlides,     \* the value generateSlidesInParallel yields
  elapsed,         \* time since executeTask set the timer of each task, in ticks
  doc,             \* the blocks of the text given to a parser on its own
  palette,         \* a call of generateColorPalette on its own: text and result
  image,           \* the theme of a parser and a call of its generateImageUrl
  multi            \* a call of executeMultiAgent: its tasks and what it returned

vars == <<slideCount, agents, parallelCount, hasSendEvent, pc, taskQueue,
          activePromises, processingTasks, completedTasks, slideMap, promise,
          race, gen, parser, lastSlide, sent, completeCount, finalSlides,
          elapsed, doc, palette, image, multi>>

inputs == <<slideCount, agents, parallelCount, hasSendEvent>>

\* no document: nothing was given to the parser
NoDoc == [marker |-> <<>>, sep |-> <<>>, blocks |-> <<>>]

\* what the program does not write: the time and the text of the backend
env == <<elapsed, doc>>

\* nothing was called yet
NoCall == [called |-> FALSE]

\* the state of the functions that are called on their own
apart == <<palette, image, multi>>

\* a parser without a theme, generateImageUrl not called
NoImage == [called |-> FALSE, theme |-> <<>>]

InitApart == palette = NoCall /\ image = NoImage /\ multi = NoCall

\* the texts the backend of a task can produce: the text of the document
\* when the batch is run on one, the short texts otherwise
Texts == IF doc = NoDoc THEN BackendOutputs ELSE {DocText(doc)}

\* the characters the stream of a backend can deliver after text
NextChars(text) ==
  {t[Len(text) + 1] : t \in {u \in Texts : IsPrefix(text, u) /\ text # u}}

\* const actualParallelCount = parallelCount || 16
actualParallelCount ==
  IF parallelCount = 0 THEN DefaultParallelCount ELSE parallelCount

\* mutant of AgentAt: the rotation starts at the second agent
AgentAtShifted(agentList, i) ==
  IF agentList = <<>> THEN "undefined"
  ELSE agentList[((i + 1) % Len(agentList)) + 1]

\* agents[i % agents.length]; with no agent the index is NaN and the element
\* is undefined
AgentAt(agentList, i) ==
  IF agentList = <<>> THEN "undefined"
  ELSE agentList[(i % Len(agentList)) + 1]

\* for (let i = 0; i < slideCount; i++) tasks.push({slideNumber: i + 1, agent})
RECURSIVE TaskLoop(_, _, _, _)
TaskLoop(i, count, agentList, tasks) ==
  IF i < count
  THEN TaskLoop(i + 1, count, agentList,
                Append(tasks, [slideNumber |-> i + 1, agent |-> AgentAt(agentList, i)]))
  ELSE tasks

\* createSlideTasks: slideNumber and agent of every task, the prompt left out
createSlideTasks(count, agentList) == TaskLoop(0, count, agentList, <<>>)

TaskOf(n) == createSlideTasks(slideCount, agents)[n]

(***************************************************************************)
(* slideMap: Map<number, Slide>                                            *)
(***************************************************************************)
MapHas(m, k) == \E j \in 1..Len(m) : m[j].key = k

MapGet(m, k) == m[CHOOSE j \in 1..Len(m) : m[j].key = k].value

\* Map.prototype.set keeps the place of a key that is present
MapSet(m, k, v) ==
  IF MapHas(m, k)
  THEN [j \in 1..Len(m) |-> IF m[j].key = k THEN [key |-> k, value |-> v] ELSE m[j]]
  ELSE Append(m, [key |-> k, value |-> v])

MapValues(m) == [j \in 1..Len(m) |-> m[j].value]

MapKeys(m) == {m[j].key : j \in 1..Len(m)}

\* insertion of x into a sequence sorted by slideNumber, after its equals
RECURSIVE InsertSorted(_, _)
InsertSorted(sorted, x) ==
  IF sorted = <<>> THEN <<x>>
  ELSE IF x.slideNumber < Head(sorted).slideNumber THEN <<x>> \o sorted
  ELSE <<Head(sorted)>> \o InsertSorted(Tail(sorted), x)

RECURSIVE SortFrom(_, _)
SortFrom(slides, sorted) ==
  IF slides = <<>> THEN sorted
  ELSE SortFrom(Tail(slides), InsertSorted(sorted, Head(slides)))

\* mutant of SortBySlideNumber: the slides are left in insertion order
KeepInsertionOrder(slides) == slides

\* .sort((a, b) => a.slideNumber - b.slideNumber), a stable sort
SortBySlideNumber(slides) == SortFrom(slides, <<>>)

IsValidSlide(s) == s.slideNumber > 0

\* mutant of Snapshot: the slides are filtered and left unsorted
SnapshotUnsorted(m) == SelectSeq(MapValues(m), IsValidSlide)

\* Array.from(slideMap.values()).filter(s => s.slideNumber > 0).sort(...)
Snapshot(m) == SortBySlideNumber(SelectSeq(MapValues(m), IsValidSlide))

(***************************************************************************)
(* generateSlidesInParallel: the scheduling loop                           *)
(***************************************************************************)

\* the part of the state the scheduling loop works on
SchedState ==
  [taskQueue |-> taskQueue, activePromises |-> activePromises,
   processingTasks |-> processingTasks, promise |-> promise, gen |-> gen]

\* mutant of ExecuteTaskStart: the task is not added to processingTasks
ExecuteTaskStartUnmarked(st, task) ==
  [st EXCEPT !.promise[task.slideNumber] = "pending",
             !.gen[task.slideNumber] = "running",
             !.activePromises = @ \cup {task.slideNumber}]

\* executeTask(task) up to its await, and activePromises.add(promise): a task
\* found in processingTasks returns at once, any other is marked as being
\* processed and its generator and its timer are started
ExecuteTaskStart(st, task) ==
  LET n == task.slideNumber
  IN  IF n \in st.processingTasks
      THEN [st EXCEPT !.promise[n] = "fulfilled",
                      !.activePromises = @ \cup {n}]
      ELSE [st EXCEPT !.processingTasks = @ \cup {n},
                      !.promise[n] = "pending",
                      !.gen[n] = "running",
                      !.activePromises = @ \cup {n}]

\* mutant of StartAll: only the first of the initial tasks is started
StartFirst(st, tasks) ==
  IF tasks = <<>> THEN st ELSE ExecuteTaskStart(st, Head(tasks))

\* initialTasks.forEach(task => ...)
RECURSIVE StartAll(_, _)
StartAll(st, tasks) ==
  IF tasks = <<>> THEN st
  ELSE StartAll(ExecuteTaskStart(st, Head(tasks)), Tail(tasks))

\* a splice that counts a negative deleteCount from the end, as slice does
SpliceFromEnd(len, deleteCount) ==
  IF deleteCount < 0 THEN (IF len + deleteCount > 0 THEN len + deleteCount ELSE 0)
  ELSE IF deleteCount < len THEN deleteCount ELSE len

\* the number of elements taskQueue.splice(0, deleteCount) removes
SpliceCount(len, deleteCount) ==
  IF deleteCount < 0 THEN 0 ELSE IF deleteCount < len THEN deleteCount ELSE len

\* mutant of LoopCondition: && in the place of ||
LoopConditionBoth(st) == st.taskQueue # <<>> /\ st.activePromises # {}

\* while (taskQueue.length > 0 || activePromises.size > 0)
LoopCondition(st) == st.taskQueue # <<>> \/ st.activePromises # {}

\* mutant of RefillGuard: <= in the place of <
RefillGuardLoose(st) ==
  Cardinality(st.activePromises) <= actualParallelCount /\ st.taskQueue # <<>>

\* mutant of RefillGuard: a slot is refilled only when two are free
RefillGuardLate(st) ==
  Cardinality(st.activePromises) + 1 < actualParallelCount /\ st.taskQueue # <<>>

\* while (activePromises.size < actualParallelCount && taskQueue.length > 0)
RefillGuard(st) ==
  Cardinality(st.activePromises) < actualParallelCount /\ st.taskQueue # <<>>

\* mutant of Refill: the task at the head of the queue is started and left
\* in the queue
RefillKeepsHead(st) ==
  IF RefillGuard(st) THEN ExecuteTaskStart(st, Head(st.taskQueue)) ELSE st

\* mutant of Refill: a free slot is left free
RefillNothing(st) == st

\* the inner loop: taskQueue.shift() and executeTask while a slot is free
RECURSIVE Refill(_)
Refill(st) ==
  IF RefillGuard(st)
  THEN Refill(ExecuteTaskStart([st EXCEPT !.taskQueue = Tail(@)],
                               Head(st.taskQueue)))
  ELSE st

\* the scheduling loop from its head to the next await, or to its end: with
\* the loop condition false the final slides are computed and, when there
\* is something to send, the import is awaited; otherwise free slots are
\* refilled and the loop awaits Promise.race, or, with nothing active, goes
\* round without ever awaiting
Schedule(st) ==
  LET st2 == IF LoopCondition(st) THEN Refill(st) ELSE st
  IN  /\ taskQueue' = st2.taskQueue
      /\ activePromises' = st2.activePromises
      /\ processingTasks' = st2.processingTasks
      /\ promise' = st2.promise
      /\ gen' = st2.gen
      /\ IF ~LoopCondition(st)
         THEN /\ finalSlides' = Snapshot(slideMap)
              /\ pc' = IF Len(Snapshot(slideMap)) > 0 /\ hasSendEvent
                       THEN "importing" ELSE "done"
              /\ race' = "none"
         ELSE /\ finalSlides' = finalSlides
              /\ pc' = IF st2.activePromises # {} THEN "waiting" ELSE "spinning"
              /\ race' = IF st2.activePromises # {} THEN "pending" ELSE "none"

\* generateSlidesInParallel from its first line to the first await
Start ==
  /\ pc = "start"
  /\ LET tasks == createSlideTasks(slideCount, agents)
         k     == SpliceCount(Len(tasks), actualParallelCount)
         st0   == [SchedState EXCEPT !.taskQueue = SubSeq(tasks, k + 1, Len(tasks))]
     IN  Schedule(StartAll(st0, SubSeq(tasks, 1, k)))
  /\ sent' = <<>>
  /\ UNCHANGED <<inputs, apart, env, completedTasks, slideMap, parser, lastSlide, completeCount>>

\* await Promise.race(Array.from(activePromises)) returns, or throws when
\* the promise that settled first is rejected
Wake ==
  /\ pc = "waiting"
  /\ race \in {"fulfilled", "rejected"}
  /\ IF race = "rejected"
     THEN /\ pc' = "thrown"
          /\ race' = "none"
          /\ UNCHANGED <<taskQueue, activePromises, processingTasks, promise, gen,
                         finalSlides>>
     ELSE Schedule(SchedState)
  /\ sent' = <<>>
  /\ UNCHANGED <<inputs, apart, env, completedTasks, slideMap, parser, lastSlide, completeCount>>

\* after the import: sendEvent("slide-complete", ...) and yield finalSlides
EmitComplete ==
  /\ pc = "importing"
  /\ sent' = <<[name |-> "slide-complete", slideDeck |-> finalSlides,
                completedSlides |-> Len(finalSlides), totalSlides |-> slideCount]>>
  /\ completeCount' = completeCount + 1
  /\ pc' = "done"
  /\ UNCHANGED <<inputs, apart, env, taskQueue, activePromises, processingTasks, completedTasks,
                 slideMap, promise, race, gen, parser, lastSlide, finalSlides>>

\* promise.finally(() => activePromises.delete(promise)), which also settles
\* a pending Promise.race
Finally(i) ==
  /\ i \in activePromises
  /\ promise[i] \in {"fulfilled", "rejected"}
  /\ activePromises' = activePromises \ {i}
  /\ race' = IF race = "pending" THEN promise[i] ELSE race
  /\ sent' = <<>>
  /\ UNCHANGED <<inputs, apart, env, pc, taskQueue, processingTasks, completedTasks, slideMap,
                 promise, gen, parser, lastSlide, completeCount, finalSlides>>

(***************************************************************************)
(* executeTask and generateSingleSlideStream                               *)
(***************************************************************************)

\* mutant of ProgressCallback: the slides of the event are taken from the
\* store as it was before the slide was stored
ProgressCallbackStale(i, slide) ==
  IF hasSendEvent
  THEN LET currentSlide == [slide EXCEPT !.slideNumber = i]
           store == MapSet(slideMap, i, currentSlide)
           completedSlides == Snapshot(slideMap)
       IN  [lastSlide |-> <<currentSlide>>,
            store |-> store,
            events |-> <<[name |-> "slide-stream",
                          slideNumber |-> i,
                          slide |-> currentSlide,
                          slideDeck |-> completedSlides,
                          totalSlides |-> slideCount,
                          completedSlides |-> Len(completedSlides),
                          agent |-> TaskOf(i).agent,
                          isNewSlide |-> ~MapHas(store, i)]>>]
  ELSE [lastSlide |-> lastSlide[i], store |-> slideMap, events |-> <<>>]

\* the progress callback executeTask passes to generateSingleSlideStream,
\* called with a slide: with an event sink the slide is stored under the
\* number of the task and a slide-stream event carries the sorted slides
ProgressCallback(i, slide) ==
  IF hasSendEvent
  THEN LET currentSlide == [slide EXCEPT !.slideNumber = i]
           store == MapSet(slideMap, i, currentSlide)
           completedSlides == Snapshot(store)
       IN  [lastSlide |-> <<currentSlide>>,
            store |-> store,
            events |-> <<[name |-> "slide-stream",
                          slideNumber |-> i,
                          slide |-> currentSlide,
                          slideDeck |-> completedSlides,
                          totalSlides |-> slideCount,
                          completedSlides |-> Len(completedSlides),
                          agent |-> TaskOf(i).agent,
                          isNewSlide |-> ~MapHas(store, i)]>>]
  ELSE [lastSlide |-> lastSlide[i], store |-> slideMap, events |-> <<>>]

\* sendEvent("slide-progress", ...) of generateSingleSlideStream
ProgressEvent(i) ==
  IF hasSendEvent
  THEN <<[name |-> "slide-progress", slideNumber |-> i, agent |-> TaskOf(i).agent]>>
  ELSE <<>>

\* the body of the for await loop of executeTask, run for every value the
\* generator yields: if (lastSlide) slideMap.set(slideNumber, lastSlide)
LoopBody(i, last, store) ==
  IF last # <<>> THEN MapSet(store, i, last[1]) ELSE store

\* mutant of CatchResult: the catch block throws the error again
CatchRethrows(i) == [outcome |-> "rejected", store |-> slideMap]

\* mutant of CatchResult: the catch block removes the slide of the failed task
CatchDropsSlide(i) ==
  [outcome |-> "fulfilled",
   store |-> SelectSeq(slideMap, LAMBDA e : e.key # i)]

\* the catch block of executeTask: the promise of the task is fulfilled and
\* the store is left as it is
CatchResult(i) == [outcome |-> "fulfilled", store |-> slideMap]

\* a race that counts a promise that settles after the race was settled
RaceOpenAgain(i) == promise[i] # "none"

\* Promise.race([slidePromise, timeoutPromise]) of task i is not settled:
\* executeTask waits at the await, and goes on once, with the promise that
\* settles first
RaceOpen(i) == promise[i] = "pending"

\* the generator of task i has returned, so slidePromise is resolved: if the
\* race is still open, executeTask marks the task completed
SlidePromiseResolved(i) ==
  /\ gen' = [gen EXCEPT ![i] = "returned"]
  /\ IF RaceOpen(i)
     THEN /\ completedTasks' = completedTasks \cup {i}
          /\ processingTasks' = processingTasks \ {i}
          /\ promise' = [promise EXCEPT ![i] = "fulfilled"]
     ELSE UNCHANGED <<completedTasks, processingTasks, promise>>

\* one turn of the loop "for await (const chunk of stream)" of a codex task:
\* the chunk, one character, is appended to the parser; when the parser holds
\* slides, the first one gets the number of the task, is passed to the
\* progress callback and is yielded to the loop of executeTask
StreamChunk(i) ==
  /\ i \in 1..slideCount
  /\ gen[i] = "running"
  /\ TaskOf(i).agent = "codex"
  /\ \E c \in NextChars(parser[i].buffer) :
       LET p1 == append(parser[i], <<c>>)
       IN  IF p1.slides # <<>>
           THEN LET p2 == [p1 EXCEPT !.slides[1].slideNumber = i]
                    cb == ProgressCallback(i, p2.slides[1])
                IN  /\ parser' = [parser EXCEPT ![i] = p2]
                    /\ lastSlide' = [lastSlide EXCEPT ![i] = cb.lastSlide]
                    /\ slideMap' = LoopBody(i, cb.lastSlide, cb.store)
                    /\ sent' = cb.events \o ProgressEvent(i)
           ELSE /\ parser' = [parser EXCEPT ![i] = p1]
                /\ sent' = <<>>
                /\ UNCHANGED <<lastSlide, slideMap>>
  /\ UNCHANGED <<inputs, apart, env, pc, taskQueue, activePromises, processingTasks,
                 completedTasks, promise, race, gen, completeCount, finalSlides>>

\* the stream of a codex task ends: the first slide of the parser, if any, is
\* yielded once more, the generator returns
StreamEnd(i) ==
  /\ i \in 1..slideCount
  /\ gen[i] = "running"
  /\ TaskOf(i).agent = "codex"
  /\ parser[i].buffer \in Texts
  /\ parser' = IF parser[i].slides # <<>>
               THEN [parser EXCEPT ![i].slides[1].slideNumber = i]
               ELSE parser
  /\ slideMap' = LoopBody(i, lastSlide[i], slideMap)
  /\ SlidePromiseResolved(i)
  /\ sent' = <<>>
  /\ UNCHANGED <<inputs, apart, env, pc, taskQueue, activePromises, race, lastSlide,
                 completeCount, finalSlides>>

\* the stream of a codex task throws: the catch block of
\* generateSingleSlideStream yields null, the generator returns
StreamError(i) ==
  /\ i \in 1..slideCount
  /\ gen[i] = "running"
  /\ TaskOf(i).agent = "codex"
  /\ parser[i].buffer \notin Texts
  /\ slideMap' = LoopBody(i, lastSlide[i], slideMap)
  /\ SlidePromiseResolved(i)
  /\ sent' = <<>>
  /\ UNCHANGED <<inputs, apart, env, pc, taskQueue, activePromises, race, parser, lastSlide,
                 completeCount, finalSlides>>

\* chatWithClaude or chatWithGemini returns its whole answer: it is appended
\* to the parser, the first slide or null is yielded, the generator returns
\* without a call of the progress callback
ReplyWhole(i) ==
  /\ i \in 1..slideCount
  /\ gen[i] = "running"
  /\ TaskOf(i).agent \in {"claude", "gemini"}
  /\ \E result \in Texts :
       parser' = [parser EXCEPT ![i] = append(parser[i], result)]
  /\ slideMap' = LoopBody(i, lastSlide[i], slideMap)
  /\ SlidePromiseResolved(i)
  /\ sent' = <<>>
  /\ UNCHANGED <<inputs, apart, env, pc, taskQueue, activePromises, race, lastSlide,
                 completeCount, finalSlides>>

\* chatWithClaude or chatWithGemini throws, or the agent is none of codex,
\* claude and gemini: null is yielded, the generator returns
ReplyError(i) ==
  /\ i \in 1..slideCount
  /\ gen[i] = "running"
  /\ TaskOf(i).agent # "codex"
  /\ slideMap' = LoopBody(i, lastSlide[i], slideMap)
  /\ SlidePromiseResolved(i)
  /\ sent' = <<>>
  /\ UNCHANGED <<inputs, apart, env, pc, taskQueue, activePromises, race, parser, lastSlide,
                 completeCount, finalSlides>>

\* the timer of executeTask fires while the race is open: timeoutPromise is
\* rejected, the catch block sends slide-error and marks the task completed;
\* the generator of the task is not stopped.  A timer that fires after the
\* race was settled changes nothing.
TimerFire(i) ==
  /\ i \in 1..slideCount
  /\ RaceOpen(i)
  /\ sent' = IF hasSendEvent
             THEN <<[name |-> "slide-error", slideNumber |-> i,
                     totalSlides |-> slideCount, completedSlides |-> Len(slideMap)]>>
             ELSE <<>>
  /\ slideMap' = CatchResult(i).store
  /\ promise' = [promise EXCEPT ![i] = CatchResult(i).outcome]
  /\ completedTasks' = completedTasks \cup {i}
  /\ processingTasks' = processingTasks \ {i}
  /\ UNCHANGED <<inputs, apart, env, pc, taskQueue, activePromises, race, gen, parser, lastSlide,
                 completeCount, finalSlides>>

(***************************************************************************)
(* Specification                                                           *)
(***************************************************************************)
Init ==
  /\ slideCount \in 0..MaxSlides
  /\ agents \in AgentLists
  /\ parallelCount \in 0..MaxParallel
  /\ hasSendEvent \in BOOLEAN
  /\ pc = "start"
  /\ taskQueue = <<>>
  /\ activePromises = {}
  /\ processingTasks = {}
  /\ completedTasks = {}
  /\ slideMap = <<>>
  /\ promise = [i \in 1..slideCount |-> "none"]
  /\ race = "none"
  /\ gen = [i \in 1..slideCount |-> "idle"]
  /\ parser = [i \in 1..slideCount |-> NewParser]
  /\ lastSlide = [i \in 1..slideCount |-> <<>>]
  /\ sent = <<>>
  /\ completeCount = 0
  /\ finalSlides = <<>>
  /\ elapsed = [i \in 1..slideCount |-> 0]
  /\ doc = NoDoc
  /\ InitApart

Next ==
  \/ Start
  \/ Wake
  \/ EmitComplete
  \/ \E i \in 1..MaxSlides : Finally(i)
  \/ \E i \in 1..MaxSlides : StreamChunk(i)
  \/ \E i \in 1..MaxSlides : StreamEnd(i)
  \/ \E i \in 1..MaxSlides : StreamError(i)
  \/ \E i \in 1..MaxSlides : ReplyWhole(i)
  \/ \E i \in 1..MaxSlides : ReplyError(i)
  \/ \E i \in 1..MaxSlides : TimerFire(i)

Spec == Init /\ [][Next]_vars

\* the event loop runs every callback that is ready and every timer fires:
\* the scheduling loop, the finally callbacks and the timers are not
\* postponed for ever; a backend may never answer
FairSpec ==
  /\ Spec
  /\ WF_vars(Start)
  /\ WF_vars(Wake)
  /\ WF_vars(EmitComplete)
  /\ \A i \in 1..MaxSlides : WF_vars(Finally(i))
  /\ \A i \in 1..MaxSlides : WF_vars(TimerFire(i))

(***************************************************************************)
(* One IncrementalSlideParser fed fragment by fragment                     *)
(***************************************************************************)

\* longest buffer of the parser
MaxBuffer == 6

\* longest fragment passed to append
MaxFragment == 2

ParserAlphabet == {"#", " ", "\n", "a"}

\* the fragments passed to append, the empty one among them
Fragments == UNION {[1..n -> ParserAlphabet] : n \in 0..MaxFragment}

InitParser ==
  /\ slideCount = 1
  /\ agents = <<"codex">>
  /\ parallelCount = 0
  /\ hasSendEvent = FALSE
  /\ pc = "parser"
  /\ taskQueue = <<>>
  /\ activePromises = {}
  /\ processingTasks = {}
  /\ completedTasks = {}
  /\ slideMap = <<>>
  /\ promise = [i \in 1..1 |-> "none"]
  /\ race = "none"
  /\ gen = [i \in 1..1 |-> "idle"]
  /\ parser = [i \in 1..1 |-> NewParser]
  /\ lastSlide = [i \in 1..1 |-> <<>>]
  /\ sent = <<>>
  /\ completeCount = 0
  /\ finalSlides = <<>>
  /\ elapsed = [i \in 1..slideCount |-> 0]
  /\ doc = NoDoc
  /\ InitApart

\* parser.append(chunk)
ParserAppend(chunk) ==
  /\ pc = "parser"
  /\ Len(parser[1].buffer) + Len(chunk) <= MaxBuffer
  /\ parser' = [parser EXCEPT ![1] = append(parser[1], chunk)]
  /\ UNCHANGED <<inputs, apart, env, pc, taskQueue, activePromises, processingTasks,
                 completedTasks, slideMap, promise, race, gen, lastSlide, sent,
                 completeCount, finalSlides>>

NextParser == \E chunk \in Fragments : ParserAppend(chunk)

SpecParser == InitParser /\ [][NextParser]_vars

(***************************************************************************)
(* Time: a batch whose backends never answer                               *)
(***************************************************************************)

\* setTimeout(..., 600000) of executeTask
TaskTimeoutMs == 600000

\* maxTokens: 800 of the codex stream
CodexMaxTokens == 800

\* timeout: maxTokens * 100 of generateCodeStream
CodexMsPerToken == 100

\* timeout: 1200000 of the call of chatWithClaude
ClaudeTimeoutMs == 1200000

\* timeout: options?.timeout || 300000 of callGemini, chatWithGemini gives none
GeminiTimeoutMs == 300000

\* the time after which the adapter of an agent kills its command line and
\* throws
AdapterTimeoutMs(agent) ==
  CASE agent = "codex"  -> CodexMaxTokens * CodexMsPerToken
    [] agent = "claude" -> ClaudeTimeoutMs
    [] agent = "gemini" -> GeminiTimeoutMs

RECURSIVE GCD(_, _)
GCD(a, b) == IF b = 0 THEN a ELSE GCD(b, a % b)

\* the unit of time: every timeout is a whole number of ticks
TickMs ==
  GCD(GCD(TaskTimeoutMs, CodexMaxTokens * CodexMsPerToken),
      GCD(ClaudeTimeoutMs, GeminiTimeoutMs))

TimeoutTicks == TaskTimeoutMs \div TickMs

AdapterTicks(agent) == AdapterTimeoutMs(agent) \div TickMs

TimedAgentLists == { <<"codex">>, <<"claude">>, <<"gemini">> }

\* something of task i is still waiting: executeTask for the race, or the
\* generator for its backend
Pending(i) == promise[i] = "pending" \/ gen[i] = "running"

\* the timer of executeTask is due
TimerDue(i) == promise[i] = "pending" /\ elapsed[i] >= TimeoutTicks

\* the timeout the adapter gave to execa is due
AdapterDue(i) == gen[i] = "running" /\ elapsed[i] >= AdapterTicks(TaskOf(i).agent)

InitTimed ==
  /\ slideCount \in 1..MaxSlides
  /\ agents \in TimedAgentLists
  /\ parallelCount \in 0..MaxParallel
  /\ hasSendEvent \in BOOLEAN
  /\ pc = "start"
  /\ taskQueue = <<>>
  /\ activePromises = {}
  /\ processingTasks = {}
  /\ completedTasks = {}
  /\ slideMap = <<>>
  /\ promise = [i \in 1..slideCount |-> "none"]
  /\ race = "none"
  /\ gen = [i \in 1..slideCount |-> "idle"]
  /\ parser = [i \in 1..slideCount |-> NewParser]
  /\ lastSlide = [i \in 1..slideCount |-> <<>>]
  /\ sent = <<>>
  /\ completeCount = 0
  /\ finalSlides = <<>>
  /\ elapsed = [i \in 1..slideCount |-> 0]
  /\ doc = NoDoc
  /\ InitApart

\* a tick of time passes for every task that waits; no tick passes while a
\* timer is due, the event loop runs the callback of a timer when it is due
Tick ==
  /\ \E i \in 1..slideCount : Pending(i)
  /\ \A i \in 1..slideCount : ~TimerDue(i) /\ ~AdapterDue(i)
  /\ elapsed' = [i \in 1..slideCount |->
                   IF Pending(i) THEN elapsed[i] + 1 ELSE elapsed[i]]
  /\ sent' = <<>>
  /\ UNCHANGED <<inputs, apart, doc, pc, taskQueue, activePromises, processingTasks,
                 completedTasks, slideMap, promise, race, gen, parser, lastSlide,
                 completeCount, finalSlides>>

\* the timer of executeTask fires when its time has passed
TimerElapsed(i) == i \in 1..slideCount /\ TimerDue(i) /\ TimerFire(i)

\* execa kills the command line of the backend when the timeout of the
\* adapter has passed, and the adapter throws
AdapterTimeout(i) ==
  /\ i \in 1..slideCount
  /\ AdapterDue(i)
  /\ StreamError(i) \/ ReplyError(i)

NextTimed ==
  \/ Start
  \/ Wake
  \/ \E i \in 1..MaxSlides : Finally(i)
  \/ Tick
  \/ \E i \in 1..MaxSlides : TimerElapsed(i)
  \/ \E i \in 1..MaxSlides : AdapterTimeout(i)

SpecTimed == InitTimed /\ [][NextTimed]_vars

(***************************************************************************)
(* One IncrementalSlideParser given documents made of blocks               *)
(***************************************************************************)

InitDocs ==
  /\ slideCount = 1
  /\ agents = <<"codex">>
  /\ parallelCount = 0
  /\ hasSendEvent = FALSE
  /\ pc = "docs"
  /\ taskQueue = <<>>
  /\ activePromises = {}
  /\ processingTasks = {}
  /\ completedTasks = {}
  /\ slideMap = <<>>
  /\ promise = [i \in 1..1 |-> "none"]
  /\ race = "none"
  /\ gen = [i \in 1..1 |-> "idle"]
  /\ parser = [i \in 1..1 |-> NewParser]
  /\ lastSlide = [i \in 1..1 |-> <<>>]
  /\ sent = <<>>
  /\ completeCount = 0
  /\ finalSlides = <<>>
  /\ elapsed = [i \in 1..1 |-> 0]
  /\ doc = NoDoc
  /\ InitApart

\* a new parser is given the whole text of a document in one append
FeedDocument ==
  /\ pc = "docs"
  /\ doc = NoDoc
  /\ \E d \in Docs :
       /\ doc' = d
       /\ parser' = [parser EXCEPT ![1] = append(parser[1], DocText(d))]
  /\ UNCHANGED <<inputs, apart, elapsed, pc, taskQueue, activePromises, processingTasks,
                 completedTasks, slideMap, promise, race, gen, lastSlide, sent,
                 completeCount, finalSlides>>

\* the parser is given the next block of a document in an append of its own
FeedBlock ==
  /\ pc = "docs"
  /\ Len(doc.blocks) < MaxBlocks
  /\ \E d \in Docs :
       /\ Len(d.blocks) = Len(doc.blocks) + 1
       /\ doc # NoDoc => (d.marker = doc.marker /\ d.sep = doc.sep)
       /\ \A k \in 1..Len(doc.blocks) : d.blocks[k] = doc.blocks[k]
       /\ doc' = d
       /\ parser' = [parser EXCEPT ![1] =
            append(parser[1],
                   (IF doc = NoDoc THEN <<>> ELSE d.sep) \o BlockText(d, Len(d.blocks)))]
  /\ UNCHANGED <<inputs, apart, elapsed, pc, taskQueue, activePromises, processingTasks,
                 completedTasks, slideMap, promise, race, gen, lastSlide, sent,
                 completeCount, finalSlides>>

NextDocs == FeedDocument \/ FeedBlock

SpecDocs == InitDocs /\ [][NextDocs]_vars

(***************************************************************************)
(* A batch of one codex task whose backend streams a document              *)
(***************************************************************************)

\* the documents in the format the prompt of createSlideTasks asks for,
\* "## Slide Title" and the text under it, with short titles
StreamDocs ==
  {d \in Docs : d.marker # <<>> /\ \A k \in 1..Len(d.blocks) : d.blocks[k].titleLen = 1}

InitStream ==
  /\ slideCount = 1
  /\ agents = <<"codex">>
  /\ parallelCount = 0
  /\ hasSendEvent = TRUE
  /\ pc = "start"
  /\ taskQueue = <<>>
  /\ activePromises = {}
  /\ processingTasks = {}
  /\ completedTasks = {}
  /\ slideMap = <<>>
  /\ promise = [i \in 1..1 |-> "none"]
  /\ race = "none"
  /\ gen = [i \in 1..1 |-> "idle"]
  /\ parser = [i \in 1..1 |-> NewParser]
  /\ lastSlide = [i \in 1..1 |-> <<>>]
  /\ sent = <<>>
  /\ completeCount = 0
  /\ finalSlides = <<>>
  /\ elapsed = [i \in 1..1 |-> 0]
  /\ doc \in StreamDocs
  /\ InitApart

NextStream ==
  \/ Start
  \/ Wake
  \/ EmitComplete
  \/ \E i \in 1..MaxSlides : Finally(i)
  \/ \E i \in 1..MaxSlides : StreamChunk(i)
  \/ \E i \in 1..MaxSlides : StreamEnd(i)
  \/ \E i \in 1..MaxSlides : StreamError(i)
  \/ \E i \in 1..MaxSlides : TimerFire(i)

SpecStream == InitStream /\ [][NextStream]_vars

(***************************************************************************)
(* A parser that is given heading lines, some with the same title          *)
(***************************************************************************)

\* most heading lines in the buffer
MaxHeadings == 3

\* titles: one letter in both cases, and another letter
HeadingTitles == { <<"a">>, <<"A">>, <<"b">> }

\* a heading line: its title, whether a space follows the title, and
\* whether a line "---" follows the heading line
Headings == [title : HeadingTitles, padded : BOOLEAN, closed : BOOLEAN]

HeadingText(h) ==
  <<"#", "#", " ">> \o h.title
  \o (IF h.padded THEN <<" ">> ELSE <<>>) \o <<"\n">>
  \o (IF h.closed THEN <<"-", "-", "-", "\n">> ELSE <<>>)

\* the titles of the heading lines of text, trimmed, in order
HeadingTitlesOf(text) ==
  LET lines == SelectSeq(Split("nl", text), IsHeadingLine)
  IN  [k \in 1..Len(lines) |-> Trim(StripHashes(lines[k], 2))]

InitTitles ==
  /\ slideCount = 1
  /\ agents = <<"codex">>
  /\ parallelCount = 0
  /\ hasSendEvent = FALSE
  /\ pc = "titles"
  /\ taskQueue = <<>>
  /\ activePromises = {}
  /\ processingTasks = {}
  /\ completedTasks = {}
  /\ slideMap = <<>>
  /\ promise = [i \in 1..1 |-> "none"]
  /\ race = "none"
  /\ gen = [i \in 1..1 |-> "idle"]
  /\ parser = [i \in 1..1 |-> NewParser]
  /\ lastSlide = [i \in 1..1 |-> <<>>]
  /\ sent = <<>>
  /\ completeCount = 0
  /\ finalSlides = <<>>
  /\ elapsed = [i \in 1..1 |-> 0]
  /\ doc = NoDoc
  /\ InitApart

\* parser.append(chunk) for a chunk of n heading lines
AppendHeadings(n) ==
  /\ pc = "titles"
  /\ \E hs \in [1..n -> Headings] :
       parser' = [parser EXCEPT ![1] =
         append(parser[1], Join([k \in 1..n |-> HeadingText(hs[k])], <<>>))]
  /\ UNCHANGED <<inputs, apart, env, pc, taskQueue, activePromises, processingTasks,
                 completedTasks, slideMap, promise, race, gen, lastSlide, sent,
                 completeCount, finalSlides>>

NextTitles ==
  \E n \in 1..(MaxHeadings - Len(HeadingTitlesOf(parser[1].buffer))) :
    AppendHeadings(n)

SpecTitles == InitTitles /\ [][NextTitles]_vars

(***************************************************************************)
(* generateColorPalette called on a text                                   *)
(***************************************************************************)

InitPalette ==
  /\ slideCount = 1
  /\ agents = <<"codex">>
  /\ parallelCount = 0
  /\ hasSendEvent = FALSE
  /\ pc = "palette"
  /\ taskQueue = <<>>
  /\ activePromises = {}
  /\ processingTasks = {}
  /\ completedTasks = {}
  /\ slideMap = <<>>
  /\ promise = [i \in 1..1 |-> "none"]
  /\ race = "none"
  /\ gen = [i \in 1..1 |-> "idle"]
  /\ parser = [i \in 1..1 |-> NewParser]
  /\ lastSlide = [i \in 1..1 |-> <<>>]
  /\ sent = <<>>
  /\ completeCount = 0
  /\ finalSlides = <<>>
  /\ elapsed = [i \in 1..1 |-> 0]
  /\ doc = NoDoc
  /\ InitApart

\* generateColorPalette(text)
CallGenerateColorPalette(text) ==
  /\ pc = "palette"
  /\ palette = NoCall
  /\ palette' = [called |-> TRUE, text |-> text, result |-> generateColorPalette(text)]
  /\ UNCHANGED <<inputs, env, image, multi, pc, taskQueue, activePromises, processingTasks,
                 completedTasks, slideMap, promise, race, gen, parser, lastSlide,
                 sent, completeCount, finalSlides>>

NextPalette == \E text \in PaletteTexts : CallGenerateColorPalette(text)

SpecPalette == InitPalette /\ [][NextPalette]_vars

(***************************************************************************)
(* A parser with a theme makes the image of a slide                        *)
(***************************************************************************)

InitImage ==
  /\ slideCount = 1
  /\ agents = <<"codex">>
  /\ parallelCount = 0
  /\ hasSendEvent = FALSE
  /\ pc = "image"
  /\ taskQueue = <<>>
  /\ activePromises = {}
  /\ processingTasks = {}
  /\ completedTasks = {}
  /\ slideMap = <<>>
  /\ promise = [i \in 1..1 |-> "none"]
  /\ race = "none"
  /\ gen = [i \in 1..1 |-> "idle"]
  /\ parser = [i \in 1..1 |-> NewParser]
  /\ lastSlide = [i \in 1..1 |-> <<>>]
  /\ sent = <<>>
  /\ completeCount = 0
  /\ finalSlides = <<>>
  /\ elapsed = [i \in 1..1 |-> 0]
  /\ doc = NoDoc
  /\ InitApart

\* parser.setTheme(theme)
setTheme(theme) ==
  /\ pc = "image"
  /\ ~image.called
  /\ image' = [image EXCEPT !.theme = theme]
  /\ UNCHANGED <<inputs, env, palette, multi, pc, taskQueue, activePromises, processingTasks,
                 completedTasks, slideMap, promise, race, gen, parser, lastSlide,
                 sent, completeCount, finalSlides>>

\* a parse makes a slide of this title and first sentence and gets its
\* imageUrl
MakeSlideImage(title, content, withText) ==
  /\ pc = "image"
  /\ ~image.called
  /\ image' = [called |-> TRUE, theme |-> image.theme, title |-> title,
               content |-> content, withText |-> withText,
               url |-> SlideImageUrl(image.theme, title, content, withText)]
  /\ UNCHANGED <<inputs, env, palette, multi, pc, taskQueue, activePromises, processingTasks,
                 completedTasks, slideMap, promise, race, gen, parser, lastSlide,
                 sent, completeCount, finalSlides>>

NextImage ==
  \/ \E theme \in Themes : setTheme(theme)
  \/ \E title \in ImageTitles, content \in ImageContents, withText \in BOOLEAN :
       MakeSlideImage(title, content, withText)

SpecImage == InitImage /\ [][NextImage]_vars

(***************************************************************************)
(* A parser that is reset, beside a parser constructed at that moment      *)
(***************************************************************************)

\* parser[1] is used and reset; parser[2] is constructed when parser[1] is
\* reset and is given the same chunks from then on
InitReset ==
  /\ slideCount = 1
  /\ agents = <<"codex">>
  /\ parallelCount = 0
  /\ hasSendEvent = FALSE
  /\ pc = "new"
  /\ taskQueue = <<>>
  /\ activePromises = {}
  /\ processingTasks = {}
  /\ completedTasks = {}
  /\ slideMap = <<>>
  /\ promise = [i \in 1..1 |-> "none"]
  /\ race = "none"
  /\ gen = [i \in 1..1 |-> "idle"]
  /\ parser = [i \in 1..2 |-> NewParser]
  /\ lastSlide = [i \in 1..1 |-> <<>>]
  /\ sent = <<>>
  /\ completeCount = 0
  /\ finalSlides = <<>>
  /\ elapsed = [i \in 1..1 |-> 0]
  /\ doc = NoDoc
  /\ InitApart

\* parser.append(chunk) before the first reset
AppendBeforeReset(chunk) ==
  /\ pc = "new"
  /\ Len(parser[1].buffer) + Len(chunk) <= MaxBuffer
  /\ parser' = [parser EXCEPT ![1] = append(parser[1], chunk)]
  /\ UNCHANGED <<inputs, apart, env, pc, taskQueue, activePromises, processingTasks,
                 completedTasks, slideMap, promise, race, gen, lastSlide, sent,
                 completeCount, finalSlides>>

\* parser.reset(), and new IncrementalSlideParser() beside it
Reset ==
  /\ pc \in {"new", "reset"}
  /\ parser' = [parser EXCEPT ![1] = reset(parser[1]), ![2] = NewParser]
  /\ pc' = "reset"
  /\ UNCHANGED <<inputs, apart, env, taskQueue, activePromises, processingTasks,
                 completedTasks, slideMap, promise, race, gen, lastSlide, sent,
                 completeCount, finalSlides>>

\* append(chunk) on both parsers
AppendAfterReset(chunk) ==
  /\ pc = "reset"
  /\ Len(parser[1].buffer) + Len(chunk) <= MaxBuffer
  /\ parser' = [parser EXCEPT ![1] = append(parser[1], chunk),
                              ![2] = append(parser[2], chunk)]
  /\ UNCHANGED <<inputs, apart, env, pc, taskQueue, activePromises, processingTasks,
                 completedTasks, slideMap, promise, race, gen, lastSlide, sent,
                 completeCount, finalSlides>>

NextReset ==
  \/ \E chunk \in Fragments : AppendBeforeReset(chunk)
  \/ Reset
  \/ \E chunk \in Fragments : AppendAfterReset(chunk)

SpecReset == InitReset /\ [][NextReset]_vars

(***************************************************************************)
(* One call of executeMultiAgent                                           *)
(***************************************************************************)

InitMulti ==
  /\ slideCount = 1
  /\ agents = <<"codex">>
  /\ parallelCount = 0
  /\ hasSendEvent = FALSE
  /\ pc = "multi"
  /\ taskQueue = <<>>
  /\ activePromises = {}
  /\ processingTasks = {}
  /\ completedTasks = {}
  /\ slideMap = <<>>
  /\ promise = [i \in 1..1 |-> "none"]
  /\ race = "none"
  /\ gen = [i \in 1..1 |-> "idle"]
  /\ parser = [i \in 1..1 |-> NewParser]
  /\ lastSlide = [i \in 1..1 |-> <<>>]
  /\ sent = <<>>
  /\ completeCount = 0
  /\ finalSlides = <<>>
  /\ elapsed = [i \in 1..1 |-> 0]
  /\ doc = NoDoc
  /\ InitApart

\* executeMultiAgent(prompt, {agents: chosen}) up to the await of the race:
\* the tasks are started; Promise.all of no task is fulfilled at once, so
\* the call returns
CallExecuteMultiAgent(chosen) ==
  /\ pc = "multi"
  /\ ~multi.called
  /\ multi' = [called |-> TRUE, tasks |-> AgentTasks(chosen),
               state |-> [a \in chosen |-> Running],
               by |-> IF AgentTasks(chosen) = <<>> THEN "all" ELSE "none",
               returned |-> IF AgentTasks(chosen) = <<>>
                            THEN <<ReturnValue(<<>>)>> ELSE <<>>]
  /\ UNCHANGED <<inputs, env, palette, image, pc, taskQueue, activePromises,
                 processingTasks, completedTasks, slideMap, promise, race, gen,
                 parser, lastSlide, sent, completeCount, finalSlides>>

\* the adapter call of agent a returns or throws, so its task is fulfilled;
\* with the last task Promise.all is fulfilled, and if the race is open the
\* call returns the results of all tasks
AgentSettles(a, outcome) ==
  /\ pc = "multi"
  /\ multi.called
  /\ a \in DOMAIN multi.state
  /\ multi.state[a] = Running
  /\ multi' =
       IF multi.by = "none" /\ \A b \in DOMAIN multi.state \ {a} : multi.state[b] # Running
       THEN [multi EXCEPT !.state[a] = outcome, !.by = "all",
                          !.returned = <<ReturnValue(
                             ResultsSoFar(multi.tasks, [multi.state EXCEPT ![a] = outcome]))>>]
       ELSE [multi EXCEPT !.state[a] = outcome]
  /\ UNCHANGED <<inputs, env, palette, image, pc, taskQueue, activePromises,
                 processingTasks, completedTasks, slideMap, promise, race, gen,
                 parser, lastSlide, sent, completeCount, finalSlides>>

\* the timer fires while the race is open: the call returns what
\* timeoutPromise is resolved with; the tasks go on
MultiTimeout ==
  /\ pc = "multi"
  /\ multi.called
  /\ multi.by = "none"
  /\ multi' = [multi EXCEPT !.by = "timeout",
                            !.returned = <<ReturnValue(TimeoutResults(multi.tasks, multi.state))>>]
  /\ UNCHANGED <<inputs, env, palette, image, pc, taskQueue, activePromises,
                 processingTasks, completedTasks, slideMap, promise, race, gen,
                 parser, lastSlide, sent, completeCount, finalSlides>>

NextMulti ==
  \/ \E chosen \in SUBSET {"codex", "claude", "gemini"} : CallExecuteMultiAgent(chosen)
  \/ \E a \in {"codex", "claude", "gemini"}, outcome \in AgentOutcomes :
       AgentSettles(a, outcome)
  \/ MultiTimeout

SpecMulti == InitMulti /\ [][NextMulti]_vars

(***************************************************************************)
(* generateSlidesInParallel with a negative parallelCount                  *)
(***************************************************************************)

\* the negative values of parallelCount are -MaxNegative..-1
MaxNegative == 3

InitNegative ==
  /\ slideCount \in 0..MaxSlides
  /\ agents \in AgentLists
  /\ parallelCount \in (0 - MaxNegative)..(0 - 1)
  /\ hasSendEvent \in BOOLEAN
  /\ pc = "start"
  /\ taskQueue = <<>>
  /\ activePromises = {}
  /\ processingTasks = {}
  /\ completedTasks = {}
  /\ slideMap = <<>>
  /\ promise = [i \in 1..slideCount |-> "none"]
  /\ race = "none"
  /\ gen = [i \in 1..slideCount |-> "idle"]
  /\ parser = [i \in 1..slideCount |-> NewParser]
  /\ lastSlide = [i \in 1..slideCount |-> <<>>]
  /\ sent = <<>>
  /\ completeCount = 0
  /\ finalSlides = <<>>
  /\ elapsed = [i \in 1..slideCount |-> 0]
  /\ doc = NoDoc
  /\ InitApart

\* one more round of the scheduling loop that did not await: the loop
\* condition, the refill, and no await again when nothing is active
Spin ==
  /\ pc = "spinning"
  /\ Schedule(SchedState)
  /\ sent' = <<>>
  /\ UNCHANGED <<inputs, apart, env, completedTasks, slideMap, parser, lastSlide, completeCount>>

\* the loop never gives the event loop a turn, so no callback of a backend
\* and no timer runs beside it
NextNegative == Start \/ Spin

SpecNegative == InitNegative /\ [][NextNegative]_vars

(***************************************************************************)
(* Properties                                                              *)
(***************************************************************************)

StreamEvents == {j \in 1..Len(sent) : sent[j].name = "slide-stream"}

StrictlyAscending(slides) ==
  \A j \in 1..(Len(slides) - 1) : slides[j].slideNumber < slides[j + 1].slideNumber

InRange(slides) == \A j \in 1..Len(slides) : slides[j].slideNumber \in 1..slideCount

\* the entry of the store for index k: <<>> when there is none
StoreEntry(m, k) == IF MapHas(m, k) THEN <<MapGet(m, k)>> ELSE <<>>

\* task i has timed out and its generator is still running
Orphaned(i) == promise[i] = "fulfilled" /\ gen[i] = "running"

C2_SnapshotsOrdered ==
  /\ \A j \in StreamEvents :
       StrictlyAscending(sent[j].slideDeck) /\ InRange(sent[j].slideDeck)
  /\ StrictlyAscending(finalSlides) /\ InRange(finalSlides)
  /\ \A j \in 1..Len(slideMap) :
       slideMap[j].value.slideNumber = slideMap[j].key /\ slideMap[j].key \in 1..slideCount

\* slide 2 was stored before slide 1 and an event carries both
C2_Witness ==
  /\ Len(slideMap) = 2
  /\ slideMap[1].key = 2
  /\ \E j \in StreamEvents : Len(sent[j].slideDeck) = 2

\* C3: when the batch has ended, slide-complete has been sent exactly once
\* to the event sink, also when no slide was stored and when there is no task
C3_CompleteExactlyOnce ==
  (pc = "done" /\ hasSendEvent) => completeCount = 1

\* a step in which task i fails: its timer wins the race, or its backend
\* throws
FailureStep(i) ==
  /\ promise[i] = "pending"
  /\ promise'[i] # "pending"
  /\ \/ gen'[i] = "running"
     \/ gen[i] = "running" /\ parser'[i].buffer \notin Texts

\* C4: a backend error or a timeout of one task does not abort the batch:
\* generateSlidesInParallel never throws, the slides stored by the other
\* tasks are untouched by the failure, and when it has yielded every task
\* has been admitted and has reached a terminal state
C4_FailureIsolated ==
  /\ [](pc # "thrown")
  /\ [](pc = "done" => (taskQueue = <<>> /\ completedTasks = 1..slideCount))
  /\ [][\A i \in 1..slideCount : FailureStep(i) =>
          \A k \in 1..slideCount :
             k # i => StoreEntry(slideMap', k) = StoreEntry(slideMap, k)]_vars

\* the batch has ended, a task has timed out (its generator still runs) and
\* the slide of another task is in the final slides
C4_Witness ==
  /\ pc = "done"
  /\ \E i \in 1..slideCount : Orphaned(i) /\
       \E j \in 1..Len(finalSlides) : finalSlides[j].slideNumber # i

\* C5: with a window of at least 1, when every timer fires, the batch ends:
\* generateSlidesInParallel yields its final slides
C5_Terminates == <>(pc = "done")

\* the batch has ended after a task waited in the queue and a task timed out
C5_Witness ==
  /\ pc = "done"
  /\ slideCount > actualParallelCount
  /\ \E i \in 1..slideCount : Orphaned(i)

\* C6: the final slides are computed and slide-complete is sent only when
\* the queue is empty, no promise is active and every task is in
\* completedTasks
C6_DrainedBeforeFinal ==
  pc \in {"importing", "done"} =>
    /\ taskQueue = <<>>
    /\ activePromises = {}
    /\ processingTasks = {}
    /\ completedTasks = 1..slideCount

\* slide-complete has been sent for a batch of more than one task
C6_Witness == pc = "done" /\ completeCount = 1 /\ slideCount > 1

\* C7: an index of the store stays in the store, the failure or timeout of a
\* task leaves the slide stored for it as it is, and every slide of the
\* store is in the final slides when they are computed
C7_StoreNeverDrops ==
  [][/\ MapKeys(slideMap) \subseteq MapKeys(slideMap')
     /\ \A i \in 1..slideCount : FailureStep(i) =>
          StoreEntry(slideMap', i) = StoreEntry(slideMap, i)
     /\ (pc \notin {"importing", "done"} /\ pc' \in {"importing", "done"}) =>
          \A k \in MapKeys(slideMap) :
             \E j \in 1..Len(finalSlides') : finalSlides'[j] = MapGet(slideMap, k)
    ]_vars

\* the batch has ended and the final slides hold the slide of a task that
\* timed out after it had stored it
C7_Witness ==
  /\ pc = "done"
  /\ \E i \in 1..slideCount : Orphaned(i) /\
       \E j \in 1..Len(finalSlides) : finalSlides[j].slideNumber = i

\* C8: once task i has timed out, what its generator produces afterwards
\* neither changes the store nor is sent as a slide-stream event
C8_OrphanDiscarded ==
  [][\A i \in 1..slideCount : Orphaned(i) =>
        /\ StoreEntry(slideMap', i) = StoreEntry(slideMap, i)
        /\ ~ \E j \in 1..Len(sent') :
               sent'[j].name = "slide-stream" /\ sent'[j].slideNumber = i
    ]_vars

\* title and body of the slides
Units(slides) ==
  [j \in 1..Len(slides) |-> <<slides[j].title, slides[j].content>>]

\* C9: append("") after an append that returned slides returns slides with
\* the same titles and bodies as the call before
C9_EmptyAppendIdempotent ==
  [][(parser'[1].buffer = parser[1].buffer /\ parser[1].slides # <<>>) =>
        Units(parser'[1].slides) = Units(parser[1].slides)]_vars

\* C10: however the text was cut into fragments, the parser holds the slides
\* a new parser returns for the whole text in one append
C10_PrefixConfluence ==
  Units(parser[1].slides) = Units(append(NewParser, parser[1].buffer).slides)

\* task i has a slide-error event, the only event of the program for a task
\* that did not succeed, in the events of the step
ErrorEvent(i) ==
  \E j \in 1..Len(sent') : sent'[j].name = "slide-error" /\ sent'[j].slideNumber = i

\* C11: a task whose backend never answers becomes terminal only by its
\* timeout: at the step that makes it terminal the per-task timeout has just
\* passed (not less, and not a tick more), its execution is still waiting
\* for the backend, and the timeout event is sent to the event sink
C11_TimeoutOnTime ==
  [][\A i \in 1..slideCount :
        (promise[i] = "pending" /\ promise'[i] # "pending") =>
          /\ elapsed[i] = TimeoutTicks
          /\ gen'[i] = "running"
          /\ hasSendEvent => ErrorEvent(i)
    ]_vars

\* task i has a slide-stream event in the events of the step, and the event
\* carries the snapshot of the store after the step
StreamEventFor(i) ==
  \E j \in 1..Len(sent') :
     /\ sent'[j].name = "slide-stream"
     /\ sent'[j].slideNumber = i
     /\ sent'[j].slideDeck = Snapshot(slideMap')

\* C12: when claude or gemini returns its whole answer before the timeout
\* and the parser finds a slide in it, the slide is stored under the number
\* of the task and a slide-stream event with the new snapshot is sent
C12_ReplyStoredAndPublished ==
  [][\A i \in 1..slideCount :
        ( /\ TaskOf(i).agent \in {"claude", "gemini"}
          /\ hasSendEvent
          /\ promise[i] = "pending"
          /\ gen[i] = "running" /\ gen'[i] = "returned"
          /\ parser'[i].slides # <<>> ) =>
          /\ StoreEntry(slideMap', i) =
               <<[parser'[i].slides[1] EXCEPT !.slideNumber = i]>>
          /\ StreamEventFor(i)
    ]_vars

\* C13: slide-complete reports as succeeded only tasks that succeeded, and
\* the final slides hold only their indices: a task that has timed out (its
\* execution is still running when the batch ends) is counted as failed, so
\* completedSlides and the timed-out tasks together are at most totalSlides,
\* and no slide of the event has the index of a timed-out task
C13_CompleteReportsOutcomes ==
  [][(pc = "importing" /\ pc' = "done") =>
        LET timedOut == {i \in 1..slideCount : Orphaned(i)}
            e == sent'[1]
        IN  /\ e.name = "slide-complete"
            /\ e.completedSlides + Cardinality(timedOut) <= e.totalSlides
            /\ \A j \in 1..Len(e.slideDeck) : e.slideDeck[j].slideNumber \notin timedOut
    ]_vars

\* C14: with an event sink, every step in which a task fails, by a backend
\* error or by its timeout, sends an event for that task
C14_FailureHasEvent ==
  [][\A i \in 1..slideCount : (FailureStep(i) /\ hasSendEvent) => ErrorEvent(i)]_vars

C16_InvalidBatchRejected ==
  (slideCount < 1 \/ agents = <<>>) =>
    /\ pc \in {"start", "thrown"}
    /\ processingTasks = {}
    /\ completedTasks = {}
    /\ \A i \in 1..slideCount : gen[i] = "idle"

\* the step gives a new parser the text of a document in one append
FirstAppend == doc = NoDoc /\ doc' # NoDoc

\* text t has a terminal, white space after it and more text after that
HasSecondSentence(t) ==
  \E q \in 1..Len(t) :
    /\ t[q] \in Terminals
    /\ q < Len(t)
    /\ t[q + 1] \in WS
    /\ \E r \in (q + 2)..Len(t) : t[r] \notin WS

\* C17: a document of k sections, each opened by a heading and with titles
\* that differ, given to a new parser in one append, comes back as k slides
\* in the order of the document, slide j with the text of heading j as its
\* title and the first sentence of section j as its content
C17_SectionsFirstSentence ==
  [][ (FirstAppend /\ doc'.marker # <<>>) =>
        LET d == doc'
            s == parser'[1].slides
        IN  /\ Len(s) = Len(d.blocks)
            /\ \A j \in 1..Len(s) :
                 /\ s[j].title = BlockTitle(d, j)
                 /\ s[j].content = d.blocks[j].body.first ]_vars

\* C18: a document of k paragraphs set apart by blank lines, without heading
\* and without separator line, comes back as k slides in the order of the
\* paragraphs, slide j with the first sentence of paragraph j cut to
\* TitleMax characters as its title
C18_ParagraphTitles ==
  [][ (FirstAppend /\ doc'.marker = <<>> /\ doc'.sep = <<"\n", "\n">>) =>
        LET d == doc'
            s == parser'[1].slides
        IN  /\ Len(s) = Len(d.blocks)
            /\ \A j \in 1..Len(s) :
                 s[j].title = Substring0(BlockTitle(d, j) \o <<".">>, TitleMax) ]_vars

\* C19: the content of a slide the parser returns is one sentence at most:
\* it has no terminal followed by white space and more text
C19_BodyOneSentence ==
  \A j \in 1..Len(parser[1].slides) :
    ~HasSecondSentence(parser[1].slides[j].content)

\* C20: the title of a slide the parser returns, and of a slide in the
\* store, has TitleMax characters at most
C20_TitleAtMostMax ==
  /\ \A j \in 1..Len(parser[1].slides) :
       Len(parser[1].slides[j].title) <= TitleMax
  /\ \A j \in 1..Len(slideMap) :
       Len(slideMap[j].value.title) <= TitleMax

\* C21: a slide-stream event carries the slide that changed and the sorted
\* slides of the store as it is right after that slide was stored: the
\* store of the step is the store before it with the slide set at its
\* index and nothing else changed, and the slides of the event are that
\* store's, the slide of the event among them
C21_EventCarriesStore ==
  [][\A j \in 1..Len(sent') :
        sent'[j].name = "slide-stream" =>
          /\ sent'[j].slide.slideNumber = sent'[j].slideNumber
          /\ slideMap' = MapSet(slideMap, sent'[j].slideNumber, sent'[j].slide)
          /\ sent'[j].slideDeck = Snapshot(slideMap')
          /\ \E k \in 1..Len(sent'[j].slideDeck) :
                sent'[j].slideDeck[k] = sent'[j].slide
    ]_vars

\* an event for slide 2 carries the slides of both tasks, and slide 2 is
\* stored for the first time
C21_Witness ==
  \E j \in StreamEvents :
    /\ sent[j].slideNumber = 2
    /\ Len(sent[j].slideDeck) = 2
    /\ sent[j].slideDeck[1].slideNumber = 1
    /\ parser[2].buffer = <<"\n", "#">>

\* the step is one of the scheduling loop that ends in its await of
\* Promise.race
Suspends == race # "pending" /\ race' = "pending"

InitialBurst ==
  IF actualParallelCount < slideCount THEN actualParallelCount ELSE slideCount

\* C23: the step that starts the batch admits the first InitialBurst tasks
\* and no other, all of them before the first await: they are active, being
\* processed and their generators run, the others are queued, and no task
\* has ended
C23_InitialBurst ==
  [][(pc = "start" /\ pc' # "start") =>
        /\ activePromises' = 1..InitialBurst
        /\ processingTasks' = 1..InitialBurst
        /\ \A i \in 1..InitialBurst : gen'[i] = "running" /\ promise'[i] = "pending"
        /\ Len(taskQueue') = slideCount - InitialBurst
        /\ \A j \in 1..Len(taskQueue') : taskQueue'[j].slideNumber = InitialBurst + j
        /\ completedTasks' = {}
    ]_vars

\* two tasks were started at once and nothing else has happened yet
C23_Witness ==
  /\ pc = "waiting"
  /\ activePromises = {1, 2}
  /\ completedTasks = {}
  /\ \A i \in 1..slideCount : parser[i].buffer = <<>> /\ promise[i] = "pending"

\* the tasks executeTask was called for
Admitted == {i \in 1..slideCount : promise[i] # "none"}

Queued == {taskQueue[j].slideNumber : j \in 1..Len(taskQueue)}

\* C25: once the queue is built, every index 1..slideCount is in exactly
\* one of the queue, processingTasks and completedTasks; an index leaves
\* the queue only for processingTasks, never returns to the queue and never
\* leaves completedTasks; and when the batch has ended completedTasks is
\* 1..slideCount and processingTasks is empty
C25_ThreeSets ==
  /\ [](pc # "start" =>
          /\ Queued \cup processingTasks \cup completedTasks = 1..slideCount
          /\ Cardinality(Queued) = Len(taskQueue)
          /\ Queued \cap processingTasks = {}
          /\ Queued \cap completedTasks = {}
          /\ processingTasks \cap completedTasks = {})
  /\ [][pc # "start" =>
          \A i \in 1..slideCount :
            /\ (i \in Queued /\ i \notin Queued') => i \in processingTasks'
            /\ i \in processingTasks => i \in processingTasks' \cup completedTasks'
            /\ i \in completedTasks => i \in completedTasks'
      ]_vars
  /\ [](pc = "done" => (completedTasks = 1..slideCount /\ processingTasks = {}))

\* with a window of one, task 1 has timed out and is completed while task
\* 2, queued until then, is being processed
C25_Witness ==
  /\ actualParallelCount = 1
  /\ Queued = {}
  /\ processingTasks = {2}
  /\ completedTasks = {1}
  /\ Orphaned(1)

\* C26: once the store holds for a task a slide with a title and a content
\* that is not empty, no later step replaces it by a slide with another
\* title or with an empty content
C26_StoredSlideGrows ==
  [][\A i \in 1..slideCount :
        (MapHas(slideMap, i) /\ MapGet(slideMap, i).content # <<>>) =>
          /\ MapHas(slideMap', i)
          /\ MapGet(slideMap', i).title = MapGet(slideMap, i).title
          /\ MapGet(slideMap', i).content # <<>>
    ]_vars

\* the parser of a task after the stream has delivered text, one character
\* at a time
RECURSIVE StreamParse(_)
StreamParse(text) ==
  IF text = <<>> THEN NewParser
  ELSE append(StreamParse(SubSeq(text, 1, Len(text) - 1)), <<text[Len(text)]>>)

\* the slide the text delivered to task i leaves in the store: that of a
\* codex task with an event sink whose parser holds a slide
OutcomeSlide(i) ==
  LET p == StreamParse(parser[i].buffer)
  IN  IF hasSendEvent /\ TaskOf(i).agent = "codex" /\ p.slides # <<>>
      THEN <<[p.slides[1] EXCEPT !.slideNumber = i]>>
      ELSE <<>>

\* the slides of tasks from to slideCount, in the order of the tasks
RECURSIVE OutcomeSlides(_)
OutcomeSlides(from) ==
  IF from > slideCount THEN <<>> ELSE OutcomeSlide(from) \o OutcomeSlides(from + 1)

HasHeadingLine(text) ==
  \E k \in 1..Len(Split("nl", text)) :
    /\ IsHeadingLine(Split("nl", text)[k])
    /\ Trim(StripHashes(Split("nl", text)[k], 2)) # <<>>

\* the parse of the step found nothing in Markdown format and returned the
\* slides of the sentence format
ReturnedFallback ==
  /\ parseMarkdownFormat(parser'[1].buffer, parser[1].seenSlideTitles).slides = <<>>
  /\ parseSentenceFormat(parser'[1].buffer) # <<>>
  /\ parser'[1].slides = parseSentenceFormat(parser'[1].buffer)

\* C28: while the buffer has a heading line, an append does not return the
\* slides of the sentence format
C28_NoFallbackWithHeading ==
  [][HasHeadingLine(parser'[1].buffer) => ~ReturnedFallback]_vars

\* text has no line that is a heading and, trimmed, is of at most
\* MinSentenceLength characters, so that none of its segments is longer
NothingRecognizable(text) ==
  /\ \A k \in 1..Len(Split("nl", text)) : ~IsHeadingLine(Split("nl", text)[k])
  /\ Len(Trim(text)) <= MinSentenceLength

\* C29: while the buffer has no heading line and no segment of more than
\* MinSentenceLength characters after trimming, append returns no slide
C29_NoneWhileUnrecognizable ==
  NothingRecognizable(parser[1].buffer) => parser[1].slides = <<>>

\* the slides the Markdown format parse of the step returns
MarkdownReturned ==
  parseMarkdownFormat(parser'[1].buffer, parser[1].seenSlideTitles).slides

\* the titles of slides, trimmed
TitlesOf(slides) == {Trim(slides[k].title) : k \in 1..Len(slides)}

\* C30: the slides one Markdown format parse returns have titles that
\* differ after trimming, none of them a title returned by a parse before;
\* and every title of a heading line that was not returned before is among
\* them, so a title is not held back by one that differs from it in letter
\* case only
C30_TitlesOnce ==
  [][/\ Cardinality(TitlesOf(MarkdownReturned)) = Len(MarkdownReturned)
     /\ TitlesOf(MarkdownReturned) \cap parser[1].seenSlideTitles = {}
     /\ \A k \in 1..Len(HeadingTitlesOf(parser'[1].buffer)) :
          HeadingTitlesOf(parser'[1].buffer)[k] \in
            TitlesOf(MarkdownReturned) \cup parser[1].seenSlideTitles]_vars

\* one parse met the headings a, A and a again, and returned a and A
C30_Witness ==
  /\ pc = "titles"
  /\ HeadingTitlesOf(parser[1].buffer) = << <<"a">>, <<"A">>, <<"a">> >>
  /\ Len(parser[1].slides) = 2
  /\ parser[1].slides[1].title = <<"a">>
  /\ parser[1].slides[2].title = <<"A">>

\* C31: the palette follows the keyword counts: it is the creative one only
\* for a text that has no more tech and no more business keywords than
\* creative ones, and a text with more tech than creative keywords, and no
\* more business than tech keywords, gets the tech palette
C31_ToneByCounts ==
  palette.called =>
    /\ palette.result = getPaletteForTone("creative") =>
         /\ KeywordCount(toLowerCase(palette.text), creativeKeywords)
              >= KeywordCount(toLowerCase(palette.text), techKeywords)
         /\ KeywordCount(toLowerCase(palette.text), creativeKeywords)
              >= KeywordCount(toLowerCase(palette.text), businessKeywords)
    /\ ( /\ KeywordCount(toLowerCase(palette.text), techKeywords)
              > KeywordCount(toLowerCase(palette.text), creativeKeywords)
         /\ KeywordCount(toLowerCase(palette.text), techKeywords)
              >= KeywordCount(toLowerCase(palette.text), businessKeywords) )
       => palette.result = getPaletteForTone("tech")

\* C32: the image of a slide made by a parser with a theme is the image
\* every other title and first sentence would get from a parser with that
\* theme
C32_ImageByThemeAlone ==
  (image.called /\ image.theme # <<>>) =>
    \A title \in ImageTitles, content \in ImageContents, withText \in BOOLEAN :
      SlideImageUrl(image.theme, title, content, withText) = image.url

\* a parser with the theme "cat" made a slide titled "big dog" with a
\* first sentence, and its image is looked up as "cat"
C32_Witness ==
  /\ image.called
  /\ image.theme = <<"c", "a", "t">>
  /\ image.title = <<"b", "i", "g", " ", "d", "o", "g">>
  /\ image.content # <<>>
  /\ image.url.query = <<"c", "a", "t">>

\* the step passes a slide-error event of task i to sendEvent
SendsSlideError(i) ==
  \E j \in 1..Len(sent') : sent'[j].name = "slide-error" /\ sent'[j].slideNumber = i

\* C33: a task ends once: it is marked completed in the step that settles
\* the promise of its executeTask and in no other, and once that promise is
\* settled it stays as it is, the task stays completed and not processing,
\* and no slide-error event of the task is sent, whether its timer fires
\* or its generator returns later
C33_TerminalOnce ==
  [][\A i \in DOMAIN promise :
       /\ promise[i] \in {"fulfilled", "rejected"} =>
            /\ promise'[i] = promise[i]
            /\ i \in completedTasks' /\ i \notin processingTasks'
            /\ ~SendsSlideError(i)
       /\ i \in completedTasks' \ completedTasks =>
            promise[i] = "pending" /\ promise'[i] = "fulfilled"
       /\ SendsSlideError(i) => i \in completedTasks' \ completedTasks]_vars

\* task 1 timed out and its generator still runs, while the generator of
\* task 2 returned before its timer fired
C33_Witness ==
  /\ hasSendEvent
  /\ slideCount = 2
  /\ promise[1] = "fulfilled" /\ gen[1] = "running"
  /\ promise[2] = "fulfilled" /\ gen[2] = "returned"
  /\ completedTasks = {1, 2}

\* the slide the text delivered to task i leaves in the store of a run that
\* has an event sink
SlideWithSink(i) ==
  IF TaskOf(i).agent = "codex" /\ StreamParse(parser[i].buffer).slides # <<>>
  THEN <<[StreamParse(parser[i].buffer).slides[1] EXCEPT !.slideNumber = i]>>
  ELSE <<>>

RECURSIVE SlidesWithSink(_)
SlidesWithSink(from) ==
  IF from > slideCount THEN <<>> ELSE SlideWithSink(from) \o SlidesWithSink(from + 1)

\* C34: the final slides do not depend on the event sink: when the batch
\* drains, with or without sendEvent, the final slides are those a run with
\* sendEvent yields for the texts delivered to the tasks
C34_SameWithoutSink ==
  [][(pc \notin {"importing", "done"} /\ pc' \in {"importing", "done"}) =>
        finalSlides' = SlidesWithSink(1)]_vars

\* C35: a slide-stream event says isNewSlide exactly when the store held no
\* slide of its task before the step
C35_NewSlideFlag ==
  [][\A j \in 1..Len(sent') :
       sent'[j].name = "slide-stream" =>
         (sent'[j].isNewSlide <=> ~MapHas(slideMap, sent'[j].slideNumber))]_vars

\* C36: after a reset every append returns what it returns on a parser
\* constructed at the moment of the reset and given the same chunks, and
\* nothing of the buffer, slides and titles of before is left
C36_ResetAsNew ==
  pc = "reset" =>
    /\ parser[1].slides = parser[2].slides
    /\ parser[1] = parser[2]

\* a parser that was reset has been given a heading since and returns its
\* slide
C36_Witness ==
  /\ pc = "reset"
  /\ parser[1].seenSlideTitles # {}
  /\ parser[1].slides # <<>>
  /\ parser[2].slides = parser[1].slides

\* C37: a call of executeMultiAgent that returns because the timer fired
\* returns no result, the summary 0, 0, 0 and the text for no success,
\* whichever agents had finished; a call that returns because all tasks
\* ended returns one result for each chosen agent, in the order of the
\* tasks, with success false exactly for the agents that threw
C37_TimeoutOrAll ==
  /\ (multi.called /\ multi.by = "timeout") =>
       /\ multi.returned[1].results = <<>>
       /\ multi.returned[1].summary = [total |-> 0, success |-> 0, failed |-> 0]
       /\ multi.returned[1].aggregated = AllAgentsFailed
  /\ (multi.called /\ multi.by = "all") =>
       /\ Len(multi.returned[1].results) = Cardinality(DOMAIN multi.state)
       /\ \A k \in 1..Len(multi.returned[1].results) :
            /\ multi.returned[1].results[k].agent = multi.tasks[k]
            /\ multi.returned[1].results[k].success
                 = ~multi.state[multi.tasks[k]].threw
            /\ multi.returned[1].results[k].success =>
                 multi.returned[1].results[k].result
                   = multi.state[multi.tasks[k]].result

\* the timer fired after codex had returned a text and before claude ended
C37_Witness ==
  /\ multi.called
  /\ multi.by = "timeout"
  /\ multi.tasks = <<"codex", "claude">>
  /\ multi.state["codex"] = [threw |-> FALSE, result |-> "text"]
  /\ multi.state["claude"] = Running

\* all tasks ended before the timer: codex threw, claude returned a text
C37_WitnessAll ==
  /\ multi.called
  /\ multi.by = "all"
  /\ multi.tasks = <<"codex", "claude">>
  /\ multi.state["codex"].threw
  /\ multi.returned[1].summary = [total |-> 2, success |-> 1, failed |-> 1]

\* C38: with a negative parallelCount and at least one task no task is ever
\* started, the tasks stay in the queue, and generateSlidesInParallel
\* neither awaits nor comes to its end: it goes round the scheduling loop
C38_NegativeSpins ==
  (parallelCount < 0 /\ slideCount > 0) =>
    /\ pc \in {"start", "spinning"}
    /\ activePromises = {} /\ processingTasks = {} /\ completedTasks = {}
    /\ \A i \in 1..slideCount : promise[i] = "none" /\ gen[i] = "idle"
    /\ pc = "spinning" => Len(taskQueue) = slideCount
    /\ finalSlides = <<>> /\ completeCount = 0

\* the loop goes round with two tasks in the queue
C38_Witness ==
  /\ parallelCount < 0
  /\ slideCount = 2
  /\ pc = "spinning"
  /\ Len(taskQueue) = 2

====
